---- MODULE Spec2Model ----
(***************************************************************************)
(* Model of the device telemetry servers of the repository: main.py (the   *)
(* full-featured generation, with flash persistence) and api_server.py     *)
(* (the minimal history generation).  One behaviour follows one device:    *)
(* the variable gen fixes which of the two scripts it runs.                *)
(*                                                                         *)
(* The module also holds the startup of the servers (SpecStartup), the     *)
(* save and load of the history on well-formed records (SpecRoundTrip),    *)
(* the cloud uploader sendToThingSpeak.py (SpecUploader), the display      *)
(* driver qwiic_oled_display.py (SpecOled), the desktop polling monitor    *)
(* monitor.py (SpecMonitor), the axis scaling of the desktop monitors      *)
(* (SpecAxis) and the desktop wireless monitor ble_monitor.py (SpecBle).   *)
(* Each specification moves the variables of its own component and holds   *)
(* the others at rest.                                                     *)
(*                                                                         *)
(* Time: ticks_ms is the monotonic tick counter (time.ticks_ms()), the     *)
(* wall clock time.time() is rtc_offset + ticks_ms \div 1000; the RTC      *)
(* offset is set at boot only (ntptime.settime() or the RTC's default).    *)
(***************************************************************************)
EXTENDS Integers, Sequences, FiniteSets, TLC

VARIABLES
    gen,                        \* "main" (main.py) or "api" (api_server.py)
    pc,                         \* position of the server loop
    ticks_ms,                   \* time.ticks_ms()
    rtc_offset,                 \* time.time() - ticks_ms \div 1000
    iters,                      \* loop iterations since the first power-on
    historical_data,            \* the history list
    last_save_ticks_ms,         \* tick of the last logged sample
    last_flash_save_ticks_ms,   \* tick of the last successful flash save
    flash_file,                 \* contents of sensor_history.json
    state,                      \* LED state shown on the page: "ON" / "OFF"
    led,                        \* value of the LED pin
    status_code,                \* the loop's status_code variable
    status_code_bound,          \* FALSE until status_code is first assigned
    conn,                       \* the loop's conn variable: "None" or "socket"
    open_sockets,               \* accepted connections not closed yet
    recv,                       \* how the last recv ended
    request,                    \* request text of the last recv
    wire,                       \* what was sent on the last connection
    raised,                     \* exception class that ended the last handling
    attempted_500,              \* the last handling tried to send the 500 response
    send_failed,                \* a send of the last handling raised
    last_read,                  \* sensor read of the last handling: none, ok, fail
    log_outcome,                \* what the last log_historical_data call did
    n_loaded,                   \* records at the head that came from flash
    all_reads_ok,               \* no sensor read failed since boot
    n_logged,                   \* records appended since boot
    flash_save,                 \* flash-save check of this iteration
    flash_prev,                 \* flash-save check of the iteration before
    saved_history,              \* the history handed to the last good save
    connection_timeout,         \* startup: polls left of the Wi-Fi join
    wlan_status,                \* startup: the last wlan.status() read
    listening,                  \* startup: the listening socket exists
    assoc_attempts,             \* uploader: connect attempts of configure_station
    sta_seen_connected,         \* uploader: its last isconnected() answer
    retries,                    \* uploader: failed attempts of this upload cycle
    posted,                     \* uploader: this upload cycle ended with a POST
    reset_calls,                \* uploader: machine.reset() calls of this cycle
    num,                        \* uploader: the sample of this cycle, <<>> before
    post_bodies,                \* uploader: field1 of the POSTs of this cycle
    last_attempt,               \* uploader: what the last pass of the for loop did
    up_led,                     \* uploader: value of the LED pin
    buffer,                     \* display: the framebuffer
    bus,                        \* display: transactions of the last call
    oled_call,                  \* display: the last call and its arguments
    oled_result,                \* display: how the last call ended
    oled_calls,                 \* display: calls made so far
    args,                       \* polling monitor: the parsed command line
    monitor,                    \* polling monitor: the SensorMonitor object
    fetched,                    \* polling monitor: how the last fetch ended
    frames,                     \* polling monitor: update_plot calls so far
    requests_sent,              \* polling monitor: HTTP requests issued
    axis_series,                \* axis scaling: family and points of a series
    axis,                       \* axis scaling: limits and ticks of its axis
    ble,                        \* wireless monitor: the SensorMonitorBLE object
    link,                       \* wireless monitor: the radio and its client
    ble_step                    \* wireless monitor: what the last step did

vars == <<gen, pc, ticks_ms, rtc_offset, iters, historical_data,
          last_save_ticks_ms, last_flash_save_ticks_ms, flash_file, state,
          led, status_code, status_code_bound, conn, open_sockets,
          recv, request, wire, raised, attempted_500, send_failed,
          last_read, log_outcome, n_loaded, all_reads_ok,
          n_logged, flash_save, flash_prev, saved_history,
          connection_timeout, wlan_status, listening,
          assoc_attempts, sta_seen_connected, retries, posted, reset_calls,
          num, post_bodies, last_attempt, up_led,
          buffer, bus, oled_call, oled_result, oled_calls,
          args, monitor, fetched, frames, requests_sent,
          axis_series, axis, ble, link, ble_step>>

startup_vars == <<connection_timeout, wlan_status, listening>>
uploader_vars == <<assoc_attempts, sta_seen_connected, retries, posted,
                   reset_calls, num, post_bodies, last_attempt, up_led>>
oled_vars == <<buffer, bus, oled_call, oled_result, oled_calls>>
monitor_vars == <<args, monitor, fetched, frames, requests_sent>>
axis_vars == <<axis_series, axis>>
ble_vars == <<ble, link, ble_step>>
desktop_vars == <<monitor_vars, axis_vars, ble_vars>>

\* what the loop of the server leaves alone
other_vars == <<saved_history, startup_vars, uploader_vars, oled_vars,
                desktop_vars>>

(***************************************************************************)
(* Bounds of the model                                                     *)
(***************************************************************************)
MaxIter == 2
MaxHistoryIter == 3
MaxRecords == 2
MaxOledCalls == 2

(***************************************************************************)
(* Program constants                                                       *)
(***************************************************************************)
SAVE_INTERVAL_S == 5
API_SAVE_INTERVAL_S == 60
SAVE_TO_FLASH_INTERVAL_S == 900
HISTORY_DURATION_S == 86400
RECV_TIMEOUT_MS == 5000
CONNECTION_TIMEOUT == 15
_LCDWIDTH == 128
_LCDHEIGHT == 32
_PAGES == 4

(***************************************************************************)
(* The other components at rest.  The Wi-Fi join has been made when the    *)
(* server loop runs; the uploader is another program; the display driver   *)
(* is as its constructor leaves it.                                        *)
(***************************************************************************)
StartupDone ==
    /\ connection_timeout = CONNECTION_TIMEOUT
    /\ wlan_status = 3
    /\ listening = TRUE

StartupNotRun ==
    /\ connection_timeout = CONNECTION_TIMEOUT
    /\ wlan_status = 0
    /\ listening = FALSE

UploaderIdle ==
    /\ assoc_attempts = 0
    /\ sta_seen_connected = FALSE
    /\ retries = 0
    /\ posted = FALSE
    /\ reset_calls = 0
    /\ num = <<>>
    /\ post_bodies = {}
    /\ last_attempt = "none"
    /\ up_led = 0

\* QwiicOledDisplay.__init__: bytearray(width * pages), all zero
BlankBuffer == [i \in 0..(_LCDWIDTH * _PAGES - 1) |-> 0]

NoCall == [name |-> "none", text |-> <<>>, x |-> 0, y |-> 0, fail_at |-> 0]

OledIdle ==
    /\ buffer = BlankBuffer
    /\ bus = <<>>
    /\ oled_call = NoCall
    /\ oled_result = "none"
    /\ oled_calls = 0

\* the desktop programs before they are started: argparse's defaults, no
\* monitor object, no series handed to the axis scaling, no radio link
DefaultArgs ==
    [server |-> <<"http://", "192.168.0.201">>, interval |-> 5,
     time_window |-> 1440, historic |-> FALSE, continue_live |-> FALSE]

\* no SensorMonitor object yet; no fetch made yet
NoMonitor == [constructed |-> FALSE]
NoFetch == [result |-> "none"]

MonitorIdle ==
    /\ args = DefaultArgs
    /\ monitor = NoMonitor
    /\ fetched = NoFetch
    /\ frames = 0
    /\ requests_sent = 0

NoAxis == [scaled |-> FALSE]

AxisIdle ==
    /\ axis_series = [key |-> "temperature", data |-> <<>>]
    /\ axis = NoAxis

NoLink == [is_connected |-> FALSE, notifying |-> FALSE]

NoBle == [constructed |-> FALSE]
NoStep == [kind |-> "none", slept |-> 0, payload |-> <<>>, notifications |-> 0]

BleIdle ==
    /\ ble = NoBle
    /\ link = NoLink
    /\ ble_step = NoStep

DesktopIdle == MonitorIdle /\ AxisIdle /\ BleIdle

SaveIntervalOf(g) == IF g = "main" THEN SAVE_INTERVAL_S ELSE API_SAVE_INTERVAL_S

(***************************************************************************)
(* Python values: None and numbers                                         *)
(***************************************************************************)
PyNone == [none |-> TRUE, val |-> 0]
Num(n) == [none |-> FALSE, val |-> n]

\* the four values the sensor driver reports: temperature_fahrenheit,
\* pressure, humidity, altitude_feet
Reading == <<Num(72), Num(101325), Num(45), Num(512)>>

SensorOutcomes == {"ok", "fail"}

time_time(ticks, off) == off + ticks \div 1000

\* time.ticks_diff: the plain difference as long as fewer than 2^29 ms lie
\* between the two ticks, which holds for every run of the model
ticks_diff(a, b) == a - b

(***************************************************************************)
(* Elapsed times the model draws from (milliseconds a blocking accept      *)
(* takes).  HistoryDelaysOf(g): less than one sampling interval, more than *)
(* two, one flash-save interval.  Exactly one interval is reached by two   *)
(* short delays or by a receive timeout.  HttpDelaysOf(g): nothing, or one *)
(* flash-save interval (main.py) or sampling interval (api_server.py).     *)
(***************************************************************************)
HistoryDelaysOf(g) ==
    IF g = "main" THEN {3000, 12000, 900000} ELSE {30000, 130000}

HttpDelaysOf(g) ==
    IF g = "main" THEN {0, 900000} ELSE {0, 60000}

\* what the RTC can be set to at boot: its power-on default, or NTP time
RtcOffsets == {0, 200000}

(***************************************************************************)
(* Sensor Acquisition Layer                                                *)
(***************************************************************************)
\* main.py returns (timestamp, t, p, h, a), or None when a query raises;
\* api_server.py returns (t, p, h, a), or (None, None, None, None)
_get_current_sensor_tuple(g, s, now) ==
    IF g = "main"
    THEN IF s = "ok"
         THEN [isNone |-> FALSE, items |-> <<Num(now)>> \o Reading]
         ELSE [isNone |-> TRUE, items |-> <<>>]
    ELSE IF s = "ok"
         THEN [isNone |-> FALSE, items |-> Reading]
         ELSE [isNone |-> FALSE, items |-> <<PyNone, PyNone, PyNone, PyNone>>]

\* all(v is not None for v in t): iterating None raises TypeError
AllRaises(t) == t.isNone
AllNotNone(t) == \A i \in 1..Len(t.items) : ~t.items[i].none

(***************************************************************************)
(* Historical Data Store                                                   *)
(***************************************************************************)
RECURSIVE Prune(_, _)
Prune(h, now) ==
    IF h # <<>> /\ now - h[1][1].val > HISTORY_DURATION_S
    THEN Prune(Tail(h), now)
    ELSE h

\* a plausible slip: the sample is appended but the interval timer is not
\* reset
Logged_no_reset(hist, last, now, now_ticks, items) ==
    LET appended == Append(hist, <<Num(now)>> \o items)
        pruned == Prune(appended, now)
    IN  [hist |-> pruned, last |-> last, outcome |-> "logged",
         popped |-> Len(appended) - Len(pruned)]

\* the branch of a successful read: append, reset the interval timer, prune
Logged(hist, last, now, now_ticks, items) ==
    LET appended == Append(hist, <<Num(now)>> \o items)
        pruned == Prune(appended, now)
    IN  [hist |-> pruned, last |-> now_ticks, outcome |-> "logged",
         popped |-> Len(appended) - Len(pruned)]

\* one call of log_historical_data: the new history, the new last-sample
\* tick and what the call did ("notdue", "logged", "skipped", "raised")
log_historical_data(g, hist, last, now_ticks, off, s) ==
    IF ticks_diff(now_ticks, last) >= SaveIntervalOf(g) * 1000
    THEN LET now == time_time(now_ticks, off)
             cur == _get_current_sensor_tuple(g, s, now)
         IN  IF AllRaises(cur)
             THEN [hist |-> hist, last |-> last, outcome |-> "raised",
                   popped |-> 0]
             ELSE IF AllNotNone(cur)
             THEN Logged(hist, last, now, now_ticks, cur.items)
             ELSE [hist |-> hist, last |-> last, outcome |-> "skipped",
                   popped |-> 0]
    ELSE [hist |-> hist, last |-> last, outcome |-> "notdue", popped |-> 0]

(***************************************************************************)
(* JSON                                                                    *)
(***************************************************************************)
JNumber(n) == [j |-> "number", n |-> n]
JString(s) == [j |-> "string", s |-> s]
JArray(els) == [j |-> "array", els |-> els]
JObject(keys, vals) == [j |-> "object", keys |-> keys, vals |-> vals]

\* json.dumps of a list of records: every tuple or list becomes an array
json_dumps_history(h) ==
    JArray([i \in 1..Len(h) |->
              JArray([k \in 1..Len(h[i]) |-> JNumber(h[i][k].val)])])

\* a plausible slip: the records come back newest first
json_loads_history_reversed(t) ==
    [i \in 1..Len(t.els) |->
       [k \in 1..Len(t.els[Len(t.els) + 1 - i].els) |->
          Num(t.els[Len(t.els) + 1 - i].els[k].n)]]

\* json.load of an array of arrays of numbers: a list of lists
json_loads_history(t) ==
    [i \in 1..Len(t.els) |->
       [k \in 1..Len(t.els[i].els) |-> Num(t.els[i].els[k].n)]]

FileMissing == [j |-> "missing"]
FileMalformed == [j |-> "malformed"]

\* files the device can hold before the program ever saved: none, an empty
\* or cut-off file, a JSON value that is not a list
InitialFiles == {FileMissing, FileMalformed, JObject(<<>>, <<>>)}

SaveOutcomes == {"ok", "open_fails", "write_fails"}

\* save_history_to_flash: open(..., 'w') truncates, json.dump writes
save_history_to_flash(hist, file, o) ==
    IF o = "ok" THEN [ok |-> TRUE, file |-> json_dumps_history(hist)]
    ELSE IF o = "open_fails" THEN [ok |-> FALSE, file |-> file]
    ELSE [ok |-> FALSE, file |-> FileMalformed]

\* a plausible slip: the loaded list is not assigned to the history
load_history_from_flash_not_assigned(hist, file) ==
    IF file.j = "missing" THEN hist
    ELSE IF file.j = "malformed" THEN <<>>
    ELSE IF file.j = "array" THEN hist
    ELSE <<>>

\* load_history_from_flash, called with the history just reset to []
load_history_from_flash(hist, file) ==
    IF file.j = "missing" THEN hist
    ELSE IF file.j = "malformed" THEN <<>>
    ELSE IF file.j = "array" THEN json_loads_history(file)
    ELSE <<>>

(***************************************************************************)
(* Request text.  A request is a sequence of items: a word (a run of       *)
(* non-blank characters), a blank " ", or the line break CRLF.             *)
(***************************************************************************)
CRLF == "\r\n"

RECURSIVE FirstLine(_)
\* request_str.split('\r\n')[0]
FirstLine(req) ==
    IF req = <<>> \/ Head(req) = CRLF THEN <<>>
    ELSE <<Head(req)>> \o FirstLine(Tail(req))

\* request_line.split(): the words, blanks dropped
SplitWs(line) == SelectSeq(line, LAMBDA x : x # " ")

Paths == {"/", "/lighton", "/lightoff?", "/sensor", "/sensor?",
          "/sensor?all=true", "/sensor?all=true?", "/temperature"}

Requests ==
    {<<"GET", " ", p, " ", "HTTP/1.1", CRLF, "Host:", " ", "pico">> : p \in Paths}
    \cup {<<"GET", " ", " ", "/?">>,         \* two blanks, no version
          <<>>,                               \* nothing received
          <<"GET">>,                          \* one token
          <<" ", "GET", " ", CRLF, "/sensor", " ", "HTTP/1.1">>}

\* the request traffic of the history specification
HistoryRequests ==
    {<<"GET", " ", "/sensor", " ", "HTTP/1.1", CRLF>>}

(***************************************************************************)
(* Responses                                                               *)
(***************************************************************************)
TextBody(t) == [kind |-> "text", text |-> t]
JsonBody(v) == [kind |-> "json", json |-> v]

\* f"{v:.2f}" if v is not None else "N/A"
Fmt2(v) == IF v.none THEN [text |-> "N/A", num |-> 0]
           ELSE [text |-> "%.2f", num |-> v.val]

\* temp, press, hum, alt = current_sensor_tuple raises unless the argument
\* is a sequence of exactly four items
WebpageRaises(t) == t.isNone \/ Len(t.items) # 4

webpage(t, led_state) ==
    [kind |-> "html", led_state |-> led_state,
     fields |-> [i \in 1..4 |-> Fmt2(t.items[i])]]

SensorKeys == <<"timestamp", "temperature_f", "pressure_pa",
                "humidity_percent", "altitude_ft">>

\* the data_dict of the /sensor route
SensorDict(g, cur, now) ==
    IF g = "main"
    THEN JObject(SensorKeys, [k \in 1..5 |-> JNumber(cur.items[k].val)])
    ELSE JObject(SensorKeys,
                 [k \in 1..5 |-> IF k = 1 THEN JNumber(now)
                                 ELSE JNumber(cur.items[k - 1].val)])

SensorFailure == JObject(<<"error">>, <<JString("Sensor read failure")>>)

Built(code, ctype, body, st, ld) ==
    [exc |-> FALSE, status_code |-> code, content_type |-> ctype,
     response |-> body, state |-> st, led |-> ld]

\* the handler raised while status_code was still the default 200
Raised(st, ld) ==
    [exc |-> TRUE, status_code |-> 200, content_type |-> "text/html",
     response |-> TextBody(""), state |-> st, led |-> ld]

\* a plausible slip: the body is set but status_code keeps its default
NotFound_default_status(st, ld) ==
    Built(200, "text/plain", TextBody("Not Found"), st, ld)

\* the else branch of the if/elif chain: unknown path
NotFound(st, ld) == Built(404, "text/plain", TextBody("Not Found"), st, ld)

\* the else branch of len(parts) >= 2: malformed request line
BadRequest(st, ld) == Built(400, "text/plain", TextBody("Bad Request"), st, ld)

PageOrRaise(cur, st, ld) ==
    IF WebpageRaises(cur) THEN Raised(st, ld)
    ELSE Built(200, "text/html", webpage(cur, st), st, ld)

\* the if/elif chain on path
Dispatch(g, path, cur, now, hist, st, ld) ==
    IF path \in {"/lighton", "/lighton?"} THEN PageOrRaise(cur, "ON", 1)
    ELSE IF path \in {"/lightoff", "/lightoff?"} THEN PageOrRaise(cur, "OFF", 0)
    ELSE IF path = "/sensor?all=true"
    THEN Built(200, "application/json", JsonBody(json_dumps_history(hist)),
               st, ld)
    ELSE IF path \in {"/sensor", "/sensor?"}
    THEN IF AllRaises(cur) THEN Raised(st, ld)
         ELSE IF AllNotNone(cur)
         THEN Built(200, "application/json",
                    JsonBody(SensorDict(g, cur, now)), st, ld)
         ELSE Built(503, "application/json", JsonBody(SensorFailure), st, ld)
    ELSE IF path \in {"/", "/?"} THEN PageOrRaise(cur, st, ld)
    ELSE NotFound(st, ld)

\* parsing of the request line, then the dispatch
BuildResponse(g, req, cur, now, hist, st, ld) ==
    LET parts == SplitWs(FirstLine(req))
    IN  IF Len(parts) >= 2
        THEN Dispatch(g, parts[2], cur, now, hist, st, ld)
        ELSE BadRequest(st, ld)

\* does the route of this request read the sensor
ReadsSensor(req) ==
    LET parts == SplitWs(FirstLine(req))
    IN  /\ Len(parts) >= 2
        /\ parts[2] \in {"/", "/?", "/lighton", "/lighton?", "/lightoff",
                         "/lightoff?", "/sensor", "/sensor?"}

StatusLine(code, reason) == [line |-> "status", code |-> code, reason |-> reason]
Header(name, value) == [line |-> name, value |-> value]
BodyLine(body) == [line |-> "body", body |-> body]

\* the four sends of a response
ResponseLines(b) ==
    <<StatusLine(b.status_code, "OK"), Header("Content-type", b.content_type),
      Header("Connection", "close"), BodyLine(b.response)>>

\* the four sends of the except Exception handler
Error500Lines ==
    <<StatusLine(500, "Internal Server Error"),
      Header("Content-type", "text/plain"), Header("Connection", "close"),
      BodyLine(TextBody("Internal Server Error"))>>

\* send number sf raises (0: none does): what reached the peer
SendFails == {0, 1, 4}
Sent(lines, sf) == IF sf = 0 THEN lines ELSE SubSeq(lines, 1, sf - 1)

\* a plausible slip: the connection is left open
FinallyClose_never(c, n) == n

\* the finally block: if conn: conn.close()
FinallyClose(c, n) == IF c = "socket" THEN n - 1 ELSE n

\* the except Exception handler: "if conn and status_code == 200" reads
\* status_code, which is unbound until a request line was parsed once
ExceptException(bound, sc, sf) ==
    IF ~bound THEN [crash |-> TRUE, wire |-> <<>>, attempted |-> FALSE]
    ELSE IF sc = 200
    THEN [crash |-> FALSE, wire |-> Sent(Error500Lines, sf), attempted |-> TRUE]
    ELSE [crash |-> FALSE, wire |-> <<>>, attempted |-> FALSE]

(***************************************************************************)
(* The state after startup                                                 *)
(***************************************************************************)
Started(g, file, off) ==
    /\ gen' = g
    /\ pc' = "periodic"
    /\ ticks_ms' = 0
    /\ rtc_offset' = off
    /\ UNCHANGED iters
    /\ historical_data' = IF g = "main"
                          THEN load_history_from_flash(<<>>, file) ELSE <<>>
    /\ last_save_ticks_ms' = 0
    /\ last_flash_save_ticks_ms' = 0
    /\ flash_file' = file
    /\ state' = "OFF"
    /\ led' = 0
    /\ status_code' = 0
    /\ status_code_bound' = FALSE
    /\ conn' = "None"
    /\ open_sockets' = 0
    /\ recv' = "none"
    /\ request' = <<>>
    /\ wire' = <<>>
    /\ raised' = "none"
    /\ attempted_500' = FALSE
    /\ send_failed' = FALSE
    /\ last_read' = "none"
    /\ log_outcome' = "none"
    /\ n_loaded' = Len(historical_data')
    /\ all_reads_ok' = TRUE
    /\ n_logged' = 0
    /\ flash_save' = "none"
    /\ flash_prev' = "none"
    /\ UNCHANGED other_vars

Init ==
    /\ gen \in {"main", "api"}
    /\ pc = "periodic"
    /\ ticks_ms = 0
    /\ rtc_offset \in RtcOffsets
    /\ iters = 0
    /\ historical_data = <<>>
    /\ last_save_ticks_ms = 0
    /\ last_flash_save_ticks_ms = 0
    /\ flash_file \in (IF gen = "main" THEN InitialFiles ELSE {FileMissing})
    /\ state = "OFF"
    /\ led = 0
    /\ status_code = 0
    /\ status_code_bound = FALSE
    /\ conn = "None"
    /\ open_sockets = 0
    /\ recv = "none"
    /\ request = <<>>
    /\ wire = <<>>
    /\ raised = "none"
    /\ attempted_500 = FALSE
    /\ send_failed = FALSE
    /\ last_read = "none"
    /\ log_outcome = "none"
    /\ n_loaded = 0
    /\ all_reads_ok = TRUE
    /\ n_logged = 0
    /\ flash_save = "none"
    /\ flash_prev = "none"
    /\ saved_history = <<>>
    /\ StartupDone
    /\ UploaderIdle
    /\ OledIdle
    /\ DesktopIdle

\* power cycle: RAM is lost, the flash file stays
Reboot(off) ==
    /\ Started(gen, flash_file, off)

(***************************************************************************)
(* The server loop                                                         *)
(***************************************************************************)
\* a plausible slip: the save is attempted in every iteration
FlashSaveDue_every_iteration(g, now_ticks, last) ==
    /\ g = "main"

FlashSaveDue(g, now_ticks, last) ==
    /\ g = "main"
    /\ ticks_diff(now_ticks, last) >= SAVE_TO_FLASH_INTERVAL_S * 1000

\* top of the loop: log_historical_data() inside try/except, then the
\* flash-save check
PeriodicTasks(s, o) ==
    /\ pc = "periodic"
    /\ LET r == log_historical_data(gen, historical_data, last_save_ticks_ms,
                                    ticks_ms, rtc_offset, s)
           due == FlashSaveDue(gen, ticks_ms, last_flash_save_ticks_ms)
           sv == save_history_to_flash(r.hist, flash_file, o)
       IN  /\ historical_data' = r.hist
           /\ last_save_ticks_ms' = r.last
           /\ log_outcome' = r.outcome
           /\ n_loaded' = IF r.popped >= n_loaded THEN 0
                          ELSE n_loaded - r.popped
           /\ n_logged' = IF r.outcome = "logged" THEN n_logged + 1
                          ELSE n_logged
           /\ all_reads_ok' = (all_reads_ok
                               /\ r.outcome \notin {"raised", "skipped"})
           /\ flash_file' = IF due THEN sv.file ELSE flash_file
           /\ last_flash_save_ticks_ms' =
                 IF due /\ sv.ok THEN ticks_ms ELSE last_flash_save_ticks_ms
           /\ flash_save' = IF ~due THEN "notdue"
                            ELSE IF sv.ok THEN "ok" ELSE "failed"
           /\ flash_prev' = flash_save
    /\ pc' = "accept"
    /\ recv' = "none"
    /\ request' = <<>>
    /\ wire' = <<>>
    /\ raised' = "none"
    /\ attempted_500' = FALSE
    /\ send_failed' = FALSE
    /\ last_read' = "none"
    /\ UNCHANGED <<gen, ticks_ms, rtc_offset, iters, state, led,
                   status_code, status_code_bound, conn, open_sockets,
                   other_vars>>

\* conn = None; conn, addr = s.accept(): blocks for d ms, then returns a
\* connection (m bounds the loop iterations of a behaviour)
Accept(d, m) ==
    /\ pc = "accept"
    /\ iters < m
    /\ ticks_ms' = ticks_ms + d
    /\ conn' = "socket"
    /\ open_sockets' = open_sockets + 1
    /\ pc' = "handle"
    /\ UNCHANGED <<gen, rtc_offset, iters, historical_data,
                   last_save_ticks_ms, last_flash_save_ticks_ms, flash_file,
                   state, led, status_code, status_code_bound, recv, request,
                   wire, raised, attempted_500, send_failed, last_read,
                   log_outcome, n_loaded, all_reads_ok, n_logged, flash_save,
                   flash_prev, other_vars>>

\* s.accept() itself raises OSError after d ms: conn stays None
AcceptFails(d, m) ==
    /\ pc = "accept"
    /\ iters < m
    /\ ticks_ms' = ticks_ms + d
    /\ conn' = "None"
    /\ open_sockets' = FinallyClose("None", open_sockets)
    /\ raised' = "OSError"
    /\ iters' = iters + 1
    /\ pc' = "periodic"
    /\ UNCHANGED <<gen, rtc_offset, historical_data,
                   last_save_ticks_ms, last_flash_save_ticks_ms, flash_file,
                   state, led, status_code, status_code_bound, recv, request,
                   wire, attempted_500, send_failed, last_read, log_outcome,
                   n_loaded, all_reads_ok, n_logged, flash_save,
                   flash_prev, other_vars>>

\* conn.recv(1024) raises OSError: timeout after 5 s, or reset by the peer
RecvFails(k) ==
    /\ pc = "handle"
    /\ recv' = k
    /\ ticks_ms' = IF k = "timeout" THEN ticks_ms + RECV_TIMEOUT_MS
                   ELSE ticks_ms
    /\ raised' = "OSError"
    /\ open_sockets' = FinallyClose(conn, open_sockets)
    /\ iters' = iters + 1
    /\ pc' = "periodic"
    /\ UNCHANGED <<gen, rtc_offset, historical_data,
                   last_save_ticks_ms, last_flash_save_ticks_ms, flash_file,
                   state, led, status_code, status_code_bound, conn, request,
                   wire, attempted_500, send_failed, last_read, log_outcome,
                   n_loaded, all_reads_ok, n_logged, flash_save,
                   flash_prev, other_vars>>

\* the bytes received are not valid UTF-8: decode raises before the request
\* line is parsed and before status_code is assigned
RecvUndecodable(sf) ==
    /\ pc = "handle"
    /\ LET h == ExceptException(status_code_bound, status_code, sf)
       IN  /\ wire' = h.wire
           /\ attempted_500' = h.attempted
           /\ send_failed' = (h.attempted /\ sf # 0)
           /\ pc' = IF h.crash THEN "crashed" ELSE "periodic"
    /\ recv' = "undecodable"
    /\ raised' = "Exception"
    /\ open_sockets' = FinallyClose(conn, open_sockets)
    /\ iters' = iters + 1
    /\ UNCHANGED <<gen, ticks_ms, rtc_offset, historical_data,
                   last_save_ticks_ms, last_flash_save_ticks_ms, flash_file,
                   state, led, status_code, status_code_bound, conn, request,
                   last_read, log_outcome, n_loaded, all_reads_ok, n_logged, flash_save,
                   flash_prev, other_vars>>

\* a request was received and decoded: parse, dispatch, send, close
HandleRequest(req, s, sf) ==
    /\ pc = "handle"
    /\ LET now == time_time(ticks_ms, rtc_offset)
           cur == _get_current_sensor_tuple(gen, s, now)
           b == BuildResponse(gen, req, cur, now, historical_data, state, led)
           h == ExceptException(TRUE, b.status_code, sf)
       IN  /\ status_code' = b.status_code
           /\ status_code_bound' = TRUE
           /\ state' = b.state
           /\ led' = b.led
           /\ IF b.exc
              THEN /\ raised' = "Exception"
                   /\ wire' = h.wire
                   /\ attempted_500' = h.attempted
                   /\ send_failed' = (h.attempted /\ sf # 0)
              ELSE /\ raised' = IF sf = 0 THEN "none" ELSE "OSError"
                   /\ wire' = Sent(ResponseLines(b), sf)
                   /\ attempted_500' = FALSE
                   /\ send_failed' = (sf # 0)
    /\ recv' = "data"
    /\ last_read' = IF ReadsSensor(req) THEN s ELSE "none"
    /\ request' = req
    /\ all_reads_ok' = (all_reads_ok /\ ~(ReadsSensor(req) /\ s = "fail"))
    /\ open_sockets' = FinallyClose(conn, open_sockets)
    /\ iters' = iters + 1
    /\ pc' = "periodic"
    /\ UNCHANGED <<gen, ticks_ms, rtc_offset, historical_data,
                   last_save_ticks_ms, last_flash_save_ticks_ms, flash_file,
                   conn, log_outcome, n_loaded, n_logged, flash_save,
                   flash_prev, other_vars>>

Next ==
    \/ \E s \in SensorOutcomes, o \in SaveOutcomes : PeriodicTasks(s, o)
    \/ \E d \in HttpDelaysOf(gen) : Accept(d, MaxIter)
    \/ \E d \in HttpDelaysOf(gen) : AcceptFails(d, MaxIter)
    \/ \E k \in {"timeout", "reset"} : RecvFails(k)
    \/ \E sf \in SendFails : RecvUndecodable(sf)
    \/ \E req \in Requests, s \in SensorOutcomes, sf \in SendFails :
          HandleRequest(req, s, sf)
    \/ \E off \in RtcOffsets : Reboot(off)

Spec == Init /\ [][Next]_vars

\* the same server under traffic that stresses the timing of the history
NextHistory ==
    \/ \E s \in SensorOutcomes, o \in SaveOutcomes : PeriodicTasks(s, o)
    \/ \E d \in HistoryDelaysOf(gen) : Accept(d, MaxHistoryIter)
    \/ \E k \in {"timeout"} : RecvFails(k)
    \/ \E req \in HistoryRequests, s \in SensorOutcomes :
          HandleRequest(req, s, 0)
    \/ \E off \in RtcOffsets : Reboot(off)

SpecHistory == Init /\ [][NextHistory]_vars

(***************************************************************************)
(* The server loop at rest: the values its variables have right after      *)
(* startup.  The specifications of the other components hold them there.   *)
(***************************************************************************)
loop_vars == <<gen, ticks_ms, rtc_offset, iters, last_save_ticks_ms,
               last_flash_save_ticks_ms, state, led, status_code,
               status_code_bound, conn, open_sockets, recv, request, wire,
               raised, attempted_500, send_failed, last_read, log_outcome,
               n_loaded, all_reads_ok, n_logged, flash_save, flash_prev>>

ServerIdle ==
    /\ ticks_ms = 0
    /\ rtc_offset = 0
    /\ iters = 0
    /\ last_save_ticks_ms = 0
    /\ last_flash_save_ticks_ms = 0
    /\ state = "OFF"
    /\ led = 0
    /\ status_code = 0
    /\ status_code_bound = FALSE
    /\ conn = "None"
    /\ open_sockets = 0
    /\ recv = "none"
    /\ request = <<>>
    /\ wire = <<>>
    /\ raised = "none"
    /\ attempted_500 = FALSE
    /\ send_failed = FALSE
    /\ last_read = "none"
    /\ log_outcome = "none"
    /\ n_loaded = 0
    /\ all_reads_ok = TRUE
    /\ n_logged = 0
    /\ flash_save = "none"
    /\ flash_prev = "none"

(***************************************************************************)
(* Save and load of the history, on histories of well-formed records       *)
(* (timestamp, temperature_f, pressure_pa, humidity_pct, altitude_ft)      *)
(***************************************************************************)
Timestamps == {1700000000, 1700000005}
Readings == {Reading, <<Num(-4), Num(99000), Num(0), Num(-30)>>}
WellFormedRecords == {<<Num(t)>> \o r : t \in Timestamps, r \in Readings}

RECURSIVE HistoriesOfLen(_)
HistoriesOfLen(n) ==
    IF n = 0 THEN {<<>>}
    ELSE {Append(h, r) : h \in HistoriesOfLen(n - 1), r \in WellFormedRecords}

WellFormedHistories == UNION {HistoriesOfLen(n) : n \in 1..MaxRecords}

InitRoundTrip ==
    /\ ServerIdle
    /\ gen = "main"
    /\ pc = "rt_save"
    /\ historical_data \in WellFormedHistories
    /\ flash_file \in InitialFiles
    /\ saved_history = <<>>
    /\ StartupNotRun
    /\ UploaderIdle
    /\ OledIdle
    /\ DesktopIdle

\* save_history_to_flash() on the history in RAM
RoundTripSave(o) ==
    /\ pc = "rt_save"
    /\ LET sv == save_history_to_flash(historical_data, flash_file, o)
       IN  /\ flash_file' = sv.file
           /\ saved_history' = IF sv.ok THEN historical_data
                               ELSE saved_history
           /\ pc' = IF sv.ok THEN "rt_load" ELSE "rt_save_failed"
    /\ UNCHANGED <<loop_vars, historical_data, startup_vars, uploader_vars,
                   oled_vars, desktop_vars>>

\* the next startup: historical_data = [], then load_history_from_flash()
RoundTripLoad ==
    /\ pc = "rt_load"
    /\ historical_data' = load_history_from_flash(<<>>, flash_file)
    /\ pc' = "rt_done"
    /\ UNCHANGED <<loop_vars, flash_file, saved_history, startup_vars,
                   uploader_vars, oled_vars, desktop_vars>>

NextRoundTrip ==
    \/ \E o \in SaveOutcomes : RoundTripSave(o)
    \/ RoundTripLoad

SpecRoundTrip == InitRoundTrip /\ [][NextRoundTrip]_vars

(***************************************************************************)
(* Cloud uploader (sendToThingSpeak.py).  It is a program of its own: the  *)
(* position pc runs through configure_station ("up_configure"), the top of *)
(* the while loop ("up_cycle"), the inner for loop ("up_attempt") and its  *)
(* else clause ("up_reset").                                               *)
(***************************************************************************)
ASSOC_ATTEMPTS == 10
INNER_ATTEMPTS == 60

InitUploader ==
    /\ ServerIdle
    /\ gen = "main"
    /\ pc = "up_configure"
    /\ historical_data = <<>>
    /\ flash_file = FileMissing
    /\ saved_history = <<>>
    /\ StartupNotRun
    /\ UploaderIdle
    /\ OledIdle
    /\ DesktopIdle

\* one pass of the for loop of configure_station: connect, sleep 5 s, ask
\* isconnected(); break when connected, else sleep 11 s.  The function
\* returns after the break or after the last pass, and the script goes on
\* to start the timer (line 44) and to the while loop.
ConnectAttempt(c) ==
    /\ pc = "up_configure"
    /\ assoc_attempts < ASSOC_ATTEMPTS
    /\ assoc_attempts' = assoc_attempts + 1
    /\ sta_seen_connected' = c
    /\ pc' = IF c \/ assoc_attempts' = ASSOC_ATTEMPTS THEN "up_cycle"
             ELSE "up_configure"
    /\ UNCHANGED <<loop_vars, historical_data, flash_file, saved_history,
                   startup_vars, retries, posted, reset_calls, num,
                   post_bodies, last_attempt, up_led, oled_vars,
                   desktop_vars>>

\* rd.randint(0, 100) gives a whole number of 0..100, both ends included;
\* the model draws the two ends and the 39 of the script's own example
RandInts == {0, 39, 100}

\* top of the while loop: a new number n, sleep 1 s, the for loop starts
CycleStart(n) ==
    /\ pc = "up_cycle"
    /\ num' = <<n>>
    /\ retries' = 0
    /\ posted' = FALSE
    /\ reset_calls' = 0
    /\ post_bodies' = {}
    /\ last_attempt' = "none"
    /\ pc' = "up_attempt"
    /\ UNCHANGED <<loop_vars, historical_data, flash_file, saved_history,
                   startup_vars, assoc_attempts, sta_seen_connected,
                   up_led, oled_vars, desktop_vars>>

\* a plausible slip: the else clause belongs to no loop and runs after the
\* break as well
AfterAttempt_else_dedented(ok, r) ==
    IF ok THEN "up_reset"
    ELSE IF r = INNER_ATTEMPTS THEN "up_reset" ELSE "up_attempt"

\* a for loop without the break: the pass after a POST that went through
\* posts again
AfterAttempt_no_break(ok, r) ==
    IF r = INNER_ATTEMPTS THEN "up_reset" ELSE "up_attempt"

\* where the for loop goes after a pass that left r failed attempts: break
\* ends the cycle, the exhausted loop runs its else clause
AfterAttempt(ok, r) ==
    IF ok THEN "up_cycle"
    ELSE IF r = INNER_ATTEMPTS THEN "up_reset" ELSE "up_attempt"

\* one pass of the for loop: connected and the POST went through (break),
\* or connected and the POST or close raised, or not connected
InnerAttempt(connected, post_ok) ==
    /\ pc = "up_attempt"
    /\ retries < INNER_ATTEMPTS
    /\ LET ok == connected /\ post_ok
           r == IF ok THEN retries ELSE retries + 1
       IN  /\ retries' = r
           /\ posted' = ok
           /\ pc' = AfterAttempt(ok, r)
    \* readings = {'field1': num} is the json of every POST
    /\ post_bodies' = IF connected THEN post_bodies \cup {num[1]}
                      ELSE post_bodies
    /\ last_attempt' = IF ~connected THEN "no_wifi"
                       ELSE IF post_ok THEN "post_ok" ELSE "post_raised"
    /\ UNCHANGED <<loop_vars, historical_data, flash_file, saved_history,
                   startup_vars, assoc_attempts, sta_seen_connected,
                   reset_calls, num, up_led, oled_vars, desktop_vars>>

\* the else clause: sleep 1 s, machine.reset(); the device restarts and the
\* script runs from its first line
ResetCall ==
    /\ pc = "up_reset"
    /\ reset_calls' = reset_calls + 1
    /\ assoc_attempts' = 0
    /\ sta_seen_connected' = FALSE
    /\ retries' = 0
    /\ posted' = FALSE
    /\ num' = <<>>
    /\ post_bodies' = {}
    /\ last_attempt' = "none"
    /\ up_led' = 0
    /\ pc' = "up_configure"
    /\ UNCHANGED <<loop_vars, historical_data, flash_file, saved_history,
                   startup_vars, oled_vars, desktop_vars>>

\* what the timer callback can reach: the globals of the script
Globals ==
    [led |-> up_led, num |-> num, retries |-> retries, posted |-> posted,
     post_bodies |-> post_bodies, last_attempt |-> last_attempt,
     sta_seen_connected |-> sta_seen_connected,
     assoc_attempts |-> assoc_attempts, reset_calls |-> reset_calls,
     pc |-> pc]

\* a callback that would also restart the count of the for loop
tick_restarts_count(g) == [g EXCEPT !.led = 1 - @, !.retries = 0]

\* tick(timer): led.toggle()
tick(g) == [g EXCEPT !.led = 1 - @]

\* the periodic timer (tim.init, freq = 1) fires between two steps of the
\* main loop; it runs from line 44 on until the reboot
Tick ==
    /\ pc \in {"up_cycle", "up_attempt", "up_reset"}
    /\ LET g == tick(Globals)
       IN  /\ up_led' = g.led
           /\ num' = g.num
           /\ retries' = g.retries
           /\ posted' = g.posted
           /\ post_bodies' = g.post_bodies
           /\ last_attempt' = g.last_attempt
           /\ sta_seen_connected' = g.sta_seen_connected
           /\ assoc_attempts' = g.assoc_attempts
           /\ reset_calls' = g.reset_calls
           /\ pc' = g.pc
    /\ UNCHANGED <<loop_vars, historical_data, flash_file, saved_history,
                   startup_vars, oled_vars, desktop_vars>>

NextUploader ==
    \/ \E c \in BOOLEAN : ConnectAttempt(c)
    \/ \E n \in RandInts : CycleStart(n)
    \/ Tick
    \/ \E connected \in BOOLEAN, post_ok \in BOOLEAN :
          InnerAttempt(connected, post_ok)
    \/ ResetCall

SpecUploader == InitUploader /\ [][NextUploader]_vars

(***************************************************************************)
(* Startup of the device server: the Wi-Fi join, the NTP sync and the      *)
(* load of the history, the listening socket.  The position pc runs        *)
(* through "wifi_poll" (the while loop), "wifi_check" (the test after it), *)
(* "wifi_up" and "socket_setup", and ends at "periodic" (the server loop), *)
(* "startup_raised" (an exception left the script) or "returned".          *)
(***************************************************************************)
\* what wlan.status() answers on the Pico W: the link states 0..3 and the
\* failures -1..-3
WlanStatuses == {-3, -2, -1, 0, 1, 2, 3}

InitStartup ==
    /\ ServerIdle
    /\ gen \in {"main", "api"}
    /\ pc = "wifi_poll"
    /\ historical_data = <<>>
    /\ flash_file = FileMissing
    /\ saved_history = <<>>
    /\ StartupNotRun
    /\ UploaderIdle
    /\ OledIdle
    /\ DesktopIdle

\* if wlan.status() >= 3: break
PollingEnds(st) == st >= 3

\* a plausible slip: the status is not looked at after the loop
ConnectionEstablished_unchecked(st) == TRUE

\* if wlan.status() != 3: raise RuntimeError(...)
ConnectionEstablished(st) == st = 3

\* one pass of the while loop: read the status; break, or count down and
\* sleep one second
PollStatus(st) ==
    /\ pc = "wifi_poll"
    /\ connection_timeout > 0
    /\ wlan_status' = st
    /\ IF PollingEnds(st)
       THEN /\ pc' = "wifi_check"
            /\ UNCHANGED connection_timeout
       ELSE /\ connection_timeout' = connection_timeout - 1
            /\ pc' = IF connection_timeout' > 0 THEN "wifi_poll"
                     ELSE "wifi_check"
    /\ UNCHANGED <<loop_vars, historical_data, flash_file, saved_history,
                   listening, uploader_vars, oled_vars, desktop_vars>>

\* after the loop the status is read once more
CheckStatus(st) ==
    /\ pc = "wifi_check"
    /\ wlan_status' = st
    /\ pc' = IF ConnectionEstablished(st) THEN "wifi_up"
             ELSE "startup_raised"
    /\ UNCHANGED <<loop_vars, historical_data, flash_file, saved_history,
                   connection_timeout, listening, uploader_vars, oled_vars, desktop_vars>>

\* ifconfig, ntptime.settime() (ImportError and OSError are caught), and in
\* main.py the load of the history
SyncAndLoad(ntp) ==
    /\ pc = "wifi_up"
    /\ historical_data' = IF gen = "main"
                          THEN load_history_from_flash(<<>>, flash_file)
                          ELSE historical_data
    /\ pc' = "socket_setup"
    /\ UNCHANGED <<loop_vars, flash_file, saved_history, startup_vars,
                   uploader_vars, oled_vars, desktop_vars>>

\* socket(), bind, listen: main.py prints and returns when one of them
\* raises, api_server.py lets the exception end the script
SocketSetup(ok) ==
    /\ pc = "socket_setup"
    /\ listening' = ok
    /\ pc' = IF ok THEN "periodic"
             ELSE IF gen = "main" THEN "returned" ELSE "startup_raised"
    /\ UNCHANGED <<loop_vars, historical_data, flash_file, saved_history,
                   connection_timeout, wlan_status, uploader_vars,
                   oled_vars, desktop_vars>>

NextStartup ==
    \/ \E st \in WlanStatuses : PollStatus(st)
    \/ \E st \in WlanStatuses : CheckStatus(st)
    \/ \E ntp \in {"ok", "ImportError", "OSError"} : SyncAndLoad(ntp)
    \/ \E ok \in BOOLEAN : SocketSetup(ok)

SpecStartup == InitStartup /\ [][NextStartup]_vars

(***************************************************************************)
(* Status display driver (qwiic_oled_display.py).  A text is a sequence of *)
(* characters; the framebuffer is indexed from 0 as the bytearray is; a    *)
(* bus transaction is what one i2c call writes.                            *)
(***************************************************************************)
\* the 5x8 font: the five column bytes of every glyph
_FONT ==
    "H" :> <<127, 8, 8, 8, 127>> @@
    "e" :> <<56, 84, 84, 84, 24>> @@
    "l" :> <<0, 65, 127, 64, 0>> @@
    "L" :> <<127, 64, 64, 64, 64>> @@
    "o" :> <<56, 68, 68, 68, 56>> @@
    " " :> <<0, 0, 0, 0, 0>> @@
    "W" :> <<127, 32, 24, 32, 127>> @@
    "r" :> <<56, 4, 4, 4, 8>> @@
    "d" :> <<48, 72, 72, 72, 127>> @@
    "T" :> <<1, 1, 127, 1, 1>> @@
    "m" :> <<124, 8, 4, 8, 124>> @@
    "n" :> <<124, 8, 4, 4, 120>> @@
    "p" :> <<127, 9, 9, 9, 6>> @@
    "u" :> <<56, 64, 64, 64, 120>> @@
    "i" :> <<0, 68, 125, 64, 0>> @@
    "t" :> <<4, 63, 68, 64, 32>> @@
    "s" :> <<72, 84, 84, 84, 36>> @@
    "y" :> <<12, 80, 80, 80, 60>> @@
    "F" :> <<127, 9, 9, 9, 1>> @@
    "C" :> <<62, 65, 65, 65, 34>> @@
    "%" :> <<35, 19, 8, 100, 98>> @@
    "." :> <<0, 0, 96, 96, 0>> @@
    ":" :> <<0, 54, 54, 0, 0>> @@
    "0" :> <<62, 81, 73, 69, 62>> @@
    "1" :> <<0, 66, 127, 64, 0>> @@
    "2" :> <<66, 97, 81, 73, 70>> @@
    "3" :> <<33, 65, 69, 75, 49>> @@
    "4" :> <<24, 20, 18, 127, 16>> @@
    "5" :> <<39, 69, 69, 69, 57>> @@
    "6" :> <<60, 74, 73, 73, 48>> @@
    "7" :> <<1, 113, 9, 5, 3>> @@
    "8" :> <<54, 73, 73, 73, 54>> @@
    "9" :> <<6, 73, 73, 41, 30>>

\* _command(cmd): i2c.writeto(address, b'\x00' + bytes([cmd]))
_command(cmd) == [kind |-> "writeto", bytes |-> <<0, cmd>>]

\* i2c.writeto_mem(address, 0x40, chunk)
writeto_mem(chunk) == [kind |-> "writeto_mem", memaddr |-> 64, bytes |-> chunk]

\* the commands of begin(), in order
InitCommands ==
    <<174, 213, 128, 168, 31, 211, 0, 64, 141, 20, 32, 0, 161, 200, 218, 2,
      129, 143, 217, 241, 219, 64, 164, 166, 175>>

\* size of the chunks display() writes
CHUNK == 16

\* a plausible slip: the page range ends at the page count
DisplayTransactions_page_end(buf) ==
    <<_command(33), _command(0), _command(_LCDWIDTH - 1),
      _command(34), _command(0), _command(_PAGES)>>
    \o [k \in 1..((_LCDWIDTH * _PAGES) \div CHUNK) |->
          writeto_mem([j \in 1..CHUNK |-> buf[(k - 1) * CHUNK + j - 1]])]

\* the transactions of display(): column range, page range, the chunks
DisplayTransactions(buf) ==
    <<_command(33), _command(0), _command(_LCDWIDTH - 1),
      _command(34), _command(0), _command(_PAGES - 1)>>
    \o [k \in 1..((_LCDWIDTH * _PAGES) \div CHUNK) |->
          writeto_mem([j \in 1..CHUNK |-> buf[(k - 1) * CHUNK + j - 1]])]

\* the transactions that went through when the f-th one raises OSError
\* (all of them when f is 0 or beyond the last)
Completed(all, f) ==
    IF f \in 1..Len(all) THEN SubSeq(all, 1, f - 1) ELSE all

\* display(): every exception is caught inside, nothing is returned
display(buf, f) ==
    [bus |-> Completed(DisplayTransactions(buf), f), result |-> "None"]

\* begin(): False when one of its own commands raises; otherwise clear(),
\* display() and True
begin(buf, f) ==
    LET cmds == [k \in 1..Len(InitCommands) |-> _command(InitCommands[k])]
    IN  IF f \in 1..Len(cmds)
        THEN [buffer |-> buf, bus |-> Completed(cmds, f), result |-> "False"]
        ELSE [buffer |-> BlankBuffer,
              bus |-> cmds \o display(BlankBuffer, f - Len(cmds)).bus,
              result |-> "True"]

\* a plausible slip: the columns beyond the right edge are not clipped
_draw_char_no_clip(buf, x, page, char) ==
    IF char \in DOMAIN _FONT
    THEN [idx \in DOMAIN buf |->
            IF \E col \in 0..4 : idx = page * _LCDWIDTH + x + col
            THEN _FONT[char][idx - (page * _LCDWIDTH + x) + 1]
            ELSE buf[idx]]
    ELSE buf

\* _draw_char: the five columns of the glyph, clipped at the right edge
\* and at the end of the buffer; nothing for a character with no glyph
_draw_char(buf, x, page, char) ==
    IF char \in DOMAIN _FONT
    THEN [idx \in DOMAIN buf |->
            IF \E col \in 0..4 : /\ x + col < _LCDWIDTH
                                  /\ idx = page * _LCDWIDTH + x + col
            THEN _FONT[char][idx - (page * _LCDWIDTH + x) + 1]
            ELSE buf[idx]]
    ELSE buf

\* the for loop of print(), from the i-th character on (i counts from 1)
RECURSIVE draw_text(_, _, _, _, _)
draw_text(buf, text, i, x, page) ==
    IF i > Len(text) THEN buf
    ELSE draw_text(IF x + (i - 1) * 6 < _LCDWIDTH
                   THEN _draw_char(buf, x + (i - 1) * 6, page, text[i])
                   ELSE buf,
                   text, i + 1, x, page)

\* the values buffer_index takes in the calls of _draw_char that print()
\* makes for a text: one per glyph column inside the display width
buffer_indexes(text, x, page) ==
    {page * _LCDWIDTH + x + (i - 1) * 6 + col :
        <<i, col>> \in {ic \in (1..Len(text)) \X (0..4) :
                          /\ x + (ic[1] - 1) * 6 < _LCDWIDTH
                          /\ text[ic[1]] \in DOMAIN _FONT
                          /\ x + (ic[1] - 1) * 6 + ic[2] < _LCDWIDTH}}

\* a print that would start every text at the left edge
print_from_left(buf, text, x, y) ==
    LET page == y \div 8
    IN  IF page >= _PAGES THEN buf ELSE draw_text(buf, text, 1, 0, page)

\* a plausible slip: a text below the last page is drawn on the last page
print_clamped(buf, text, x, y) ==
    LET page == IF y \div 8 >= _PAGES THEN _PAGES - 1 ELSE y \div 8
    IN  draw_text(buf, text, 1, x, page)

\* print(text, x, y): the framebuffer afterwards
print(buf, text, x, y) ==
    LET page == y \div 8
    IN  IF page >= _PAGES THEN buf ELSE draw_text(buf, text, 1, x, page)

\* the calls the model makes: a text of glyphs and one whose middle
\* character "a" has none; columns at the left edge and near the right
\* edge, where a glyph or a whole character is clipped; rows on page 1, on
\* the last page and below the display
Texts == {<<"H", "i">>, <<"7", "a", "F">>}
Xs == {0, 120, 125}
Ys == {9, 31, 32}

\* which transaction of a call raises OSError (0: none): for begin() its
\* last command or the first command of the flush, for display() its first
\* chunk
BeginFailPoints == {0, 25, 26}
DisplayFailPoints == {0, 7}

InitOled ==
    /\ ServerIdle
    /\ gen = "main"
    /\ pc = "oled"
    /\ historical_data = <<>>
    /\ flash_file = FileMissing
    /\ saved_history = <<>>
    /\ StartupNotRun
    /\ UploaderIdle
    /\ OledIdle
    /\ DesktopIdle

Called(name, text, x, y, f) ==
    /\ oled_calls < MaxOledCalls
    /\ oled_calls' = oled_calls + 1
    /\ oled_call' = [name |-> name, text |-> text, x |-> x, y |-> y,
                     fail_at |-> f]
    /\ UNCHANGED <<pc, loop_vars, historical_data, flash_file, saved_history,
                   startup_vars, uploader_vars, desktop_vars>>

Begin(f) ==
    /\ Called("begin", <<>>, 0, 0, f)
    /\ LET r == begin(buffer, f)
       IN  /\ buffer' = r.buffer
           /\ bus' = r.bus
           /\ oled_result' = r.result

Clear ==
    /\ Called("clear", <<>>, 0, 0, 0)
    /\ buffer' = BlankBuffer
    /\ bus' = <<>>
    /\ oled_result' = "None"

Display(f) ==
    /\ Called("display", <<>>, 0, 0, f)
    /\ LET r == display(buffer, f)
       IN  /\ bus' = r.bus
           /\ oled_result' = r.result
    /\ UNCHANGED buffer

PrintText(text, x, y) ==
    /\ Called("print", text, x, y, 0)
    /\ buffer' = print(buffer, text, x, y)
    /\ bus' = <<>>
    /\ oled_result' = "None"

NextOled ==
    \/ \E f \in BeginFailPoints : Begin(f)
    \/ Clear
    \/ \E f \in DisplayFailPoints : Display(f)
    \/ \E text \in Texts, x \in Xs, y \in Ys : PrintText(text, x, y)

SpecOled == InitOled /\ [][NextOled]_vars

(***************************************************************************)
(* The desktop polling monitor, monitor.py.  main() parses and validates   *)
(* the command line and constructs the SensorMonitor; the historic mode    *)
(* makes one request for the whole history; the live mode calls            *)
(* update_plot once per animation frame.                                   *)
(***************************************************************************)

\* the greatest power of two that is not above n (n >= 1)
Pow2Below(n) == CHOOSE p \in {2^k : k \in 0..20} : p <= n /\ n < 2 * p

\* math.ceil(q * 1.1) for a whole number q held in a double.  The double
\* 1.1 is 11/10 + 1/(5 * 2^51), so the exact product is 11q/10 +
\* q/(5 * 2^51).  When 11q/10 is not whole, the excess is far from both
\* neighbours and the ceiling is the next whole number.  When 11q/10 is a
\* whole number I, with 2^e <= I < 2^(e+1), the doubles around I are
\* 2^(e-52) apart and the excess is 2q/(5 * 2^e) of that distance:
\* above one half the product rounds up to the double after I and the
\* ceiling is I + 1; at one half the tie goes to I, whose last bit is 0.
ceil_times_1_1(q) ==
    LET I == (11 * q) \div 10
    IN  IF (11 * q) % 10 # 0 THEN I + 1
        ELSE IF q = 0 THEN 0
        ELSE IF 4 * q > 5 * Pow2Below(I) THEN I + 1
        ELSE I

\* math.ceil((max_time_window_seconds / update_interval) * 1.1); the
\* intervals of the model have no factor 11, so a quotient that is not
\* whole gives a product that is not whole either
max_points(update_interval, time_window_minutes) ==
    LET w == time_window_minutes * 60
    IN  IF w % update_interval = 0
        THEN ceil_times_1_1(w \div update_interval)
        ELSE (11 * w) \div (10 * update_interval) + 1

\* SensorMonitor.__init__ (the plot objects are left out); a URL is the
\* tuple of its parts, the scheme first when it has one
SensorMonitor(server_url, update_interval, time_window_minutes) ==
    [constructed |-> TRUE,
     server_url |-> server_url,
     sensor_endpoint |-> server_url \o <<"/sensor">>,
     historic_endpoint |-> server_url \o <<"/sensor">> \o <<"?all=true">>,
     update_interval |-> update_interval,
     max_time_window_seconds |-> time_window_minutes * 60,
     \* None is the empty tuple, a time t is <<t>>
     start_time |-> <<>>,
     max_points |-> max_points(update_interval, time_window_minutes),
     timestamps |-> <<>>,
     temperature_data |-> <<>>,
     pressure_data |-> <<>>,
     humidity_data |-> <<>>,
     altitude_data |-> <<>>]

\* a full deque that would turn the new point away
append_keep_oldest(d, x, maxlen) ==
    IF Len(d) >= maxlen THEN d ELSE Append(d, x)

\* deque(maxlen).append(x): the oldest point leaves a full deque
append(d, x, maxlen) ==
    LET a == Append(d, x)
    IN  IF Len(a) > maxlen THEN SubSeq(a, Len(a) - maxlen + 1, Len(a)) ELSE a

\* five appends of which the last one is missing
append_sample_no_altitude(m, t, temp, press, hum, alt) ==
    [m EXCEPT !.timestamps = append(@, t, m.max_points),
              !.temperature_data = append(@, temp, m.max_points),
              !.pressure_data = append(@, press, m.max_points),
              !.humidity_data = append(@, hum, m.max_points)]

\* one sample into the five series
append_sample(m, t, temp, press, hum, alt) ==
    [m EXCEPT !.timestamps = append(@, t, m.max_points),
              !.temperature_data = append(@, temp, m.max_points),
              !.pressure_data = append(@, press, m.max_points),
              !.humidity_data = append(@, hum, m.max_points),
              !.altitude_data = append(@, alt, m.max_points)]

\* the keys fetch_sensor_data looks for
ExpectedKeys == {"temperature_f", "pressure_pa", "humidity_percent",
               "altitude_ft"}

\* bodies of the answers to GET /sensor, as response.json() sees them
FullA ==
    [kind |-> "object",
     members |-> [k \in ExpectedKeys \cup {"timestamp"} |->
                    CASE k = "temperature_f" -> 70
                      [] k = "pressure_pa" -> 101325
                      [] k = "humidity_percent" -> 45
                      [] k = "altitude_ft" -> 512
                      [] OTHER -> 1700000000]]
FullB ==
    [kind |-> "object",
     members |-> [k \in ExpectedKeys |->
                    CASE k = "temperature_f" -> 72
                      [] k = "pressure_pa" -> 101300
                      [] k = "humidity_percent" -> 40
                      [] OTHER -> 500]]
MissingKey ==
    [kind |-> "object",
     members |-> [k \in ExpectedKeys \ {"altitude_ft"} |->
                    CASE k = "temperature_f" -> 71
                      [] k = "pressure_pa" -> 101310
                      [] OTHER -> 42]]
Malformed == [kind |-> "malformed", members |-> <<>>]
JsonNumber == [kind |-> "number", members |-> <<>>]
SensorBodies == {FullA, FullB, MissingKey, Malformed, JsonNumber}

\* the answers of the network: no answer at all (connection refused, timeout)
\* or a status and a body
NoAnswer == [net |-> "error", status |-> 0, body |-> Malformed]
Statuses == {200, 201, 503}
SensorReplies ==
    {NoAnswer} \cup
    {[net |-> "ok", status |-> st, body |-> b] : st \in Statuses,
                                                  b \in SensorBodies}

\* the installed requests library: from 2.27 on response.json() raises
\* requests.exceptions.JSONDecodeError, a RequestException; before, it
\* raises the decoder's own error, a ValueError
Libraries == {"json_error_is_request_exception", "json_error_is_value_error"}

\* how a try body that raised leaves the handlers of fetch_sensor_data and
\* fetch_and_plot_historic_data: a RequestException is handled by the
\* first clause; anything else reaches the second clause, whose expression
\* json.JSONDecodeError names a module the file never imports
handled(exc) ==
    IF exc = "RequestException" THEN "handled" ELSE "NameError"

\* requests.get(url, ...): a URL without a scheme raises MissingSchema, a
\* RequestException, before anything is sent; else the network answers
get(url, reply) ==
    IF url[1] \in {"http://", "https://"} THEN reply
    ELSE [reply EXCEPT !.net = "error", !.status = 0]

\* the requests that leave the machine for one requests.get(url)
sent(url) == IF url[1] \in {"http://", "https://"} THEN 1 ELSE 0

\* response.raise_for_status(): HTTPError for 400..599 only
raise_for_status(reply) ==
    IF reply.net = "error" THEN "RequestException"
    ELSE IF reply.status \in 400..599 THEN "RequestException"
    ELSE "ok"

\* response.json() on a body that does not parse
json_raises(lib) ==
    IF lib = "json_error_is_request_exception" THEN "RequestException"
    ELSE "ValueError"

\* fetch_sensor_data(): the dictionary, None, or the NameError that escapes
fetch_sensor_data(reply, lib) ==
    IF raise_for_status(reply) # "ok"
    THEN [result |-> "None", data |-> <<>>]
    ELSE IF reply.body.kind = "malformed"
    THEN [result |-> IF handled(json_raises(lib)) = "handled" THEN "None"
                     ELSE "NameError",
          data |-> <<>>]
    ELSE IF reply.body.kind = "number"
    \* k in data raises TypeError
    THEN [result |-> handled("TypeError"), data |-> <<>>]
    ELSE IF ExpectedKeys \subseteq DOMAIN reply.body.members
    THEN [result |-> "data", data |-> reply.body.members]
    ELSE [result |-> "None", data |-> <<>>]

\* response.json() on the text json.dumps(historical_data) made: a list of
\* lists of numbers
response_json(t) ==
    [kind |-> "array",
     entries |-> [i \in 1..Len(t.els) |->
                    [k \in 1..Len(t.els[i].els) |-> t.els[i].els[k].n]]]

\* the history of main.py after its first and its second sample, logged one
\* sampling interval apart on a device whose clock was set by NTP
LoggedByMain1 ==
    log_historical_data("main", <<>>, 0, SAVE_INTERVAL_S * 1000, 200000,
                        "ok").hist
LoggedByMain2 ==
    log_historical_data("main", LoggedByMain1, SAVE_INTERVAL_S * 1000,
                        2 * SAVE_INTERVAL_S * 1000, 200000, "ok").hist

\* what the route /sensor?all=true of main.py answers with these histories
ServedByMain ==
    {response_json(json_dumps_history(h)) :
        h \in {LoggedByMain1, LoggedByMain2}}

\* bodies of the answers to GET /sensor?all=true: lists of records of five
\* values, lists with the records main.py stores, an empty list, an object
Rec5a == <<1000, 70, 101325, 45, 512>>
Rec5b == <<1005, 72, 101300, 40, 500>>
Rec6 == response_json(json_dumps_history(LoggedByMain1)).entries[1]
HistoricBodies ==
    {[kind |-> "array", entries |-> e] :
        e \in {<<>>, <<Rec5a>>, <<Rec5a, Rec5b>>, <<Rec5a, Rec6>>}}
    \cup ServedByMain
    \cup {[kind |-> "object", entries |-> <<>>],
          [kind |-> "malformed", entries |-> <<>>]}
HistoricReplies ==
    {[net |-> "error", status |-> 0,
      body |-> [kind |-> "malformed", entries |-> <<>>]]} \cup
    {[net |-> "ok", status |-> st, body |-> b] : st \in {200, 503},
                                                  b \in HistoricBodies}

\* the for loop of fetch_and_plot_historic_data, from the i-th entry on
\* (datetime.fromtimestamp(ts) is held as the number of its second, as
\* datetime.now() is in UpdatePlot)
RECURSIVE load_entries(_, _, _)
load_entries(m, entries, i) ==
    IF i > Len(entries) THEN m
    ELSE LET e == entries[i]
         IN  load_entries(IF Len(e) = 5
                          THEN append_sample(m, e[1], e[2], e[3], e[4], e[5])
                          ELSE m,
                          entries, i + 1)

\* fetch_and_plot_historic_data(): the monitor afterwards and what the
\* call gave back
fetch_and_plot_historic_data(m, reply, lib) ==
    IF raise_for_status(reply) # "ok"
    THEN [monitor |-> m, result |-> "False"]
    ELSE IF reply.body.kind = "malformed"
    THEN [monitor |-> m,
          result |-> IF handled(json_raises(lib)) = "handled" THEN "False"
                     ELSE "NameError"]
    ELSE IF reply.body.kind # "array" \/ reply.body.entries = <<>>
    THEN [monitor |-> m, result |-> "False"]
    ELSE LET cleared == [m EXCEPT !.timestamps = <<>>,
                                  !.temperature_data = <<>>,
                                  !.pressure_data = <<>>,
                                  !.humidity_data = <<>>,
                                  !.altitude_data = <<>>]
             loaded == load_entries(cleared, reply.body.entries, 1)
         IN  IF loaded.timestamps = <<>>
             THEN [monitor |-> loaded, result |-> "False"]
             ELSE [monitor |-> [loaded EXCEPT
                                  !.start_time = <<loaded.timestamps[1]>>],
                   result |-> "True"]

\* the command lines of the model: intervals and windows inside, at the
\* edges of and outside the documented ranges
Intervals == {0, 5, 60, 3600, 3601}
TimeWindows == {0, 1, 60, 2881}
\* --server: the default, an address given without a scheme, another scheme
Servers == {<<"http://", "192.168.0.201">>, <<"192.168.1.123">>,
            <<"https://", "pico.local">>}
ArgsSet ==
    [server : Servers, interval : Intervals, time_window : TimeWindows,
     historic : BOOLEAN, continue_live : BOOLEAN]

\* animation frames of one run
MaxFrames == 3

InitMonitor ==
    /\ ServerIdle
    /\ gen = "main"
    /\ pc = "mon_main"
    /\ historical_data = <<>>
    /\ flash_file = FileMissing
    /\ saved_history = <<>>
    /\ StartupNotRun
    /\ UploaderIdle
    /\ OledIdle
    /\ args \in ArgsSet
    /\ monitor = NoMonitor
    /\ fetched = NoFetch
    /\ frames = 0
    /\ requests_sent = 0
    /\ AxisIdle
    /\ BleIdle

\* what no step of the polling monitor changes
monitor_rest == <<loop_vars, historical_data, flash_file, saved_history,
                  startup_vars, uploader_vars, oled_vars, axis_vars,
                  ble_vars>>

\* the validation of main(): parser.error() for a live run outside the
\* ranges and for --continue without --historic
usage_error(a) ==
    \/ /\ ~a.historic
       /\ \/ a.interval < 1 \/ a.interval > 3600
          \/ a.time_window < 1 \/ a.time_window > 2880
    \/ a.continue_live /\ ~a.historic

\* main() up to the mode selection
Main ==
    /\ pc = "mon_main"
    /\ IF usage_error(args)
       THEN pc' = "mon_usage_error" /\ UNCHANGED monitor
       ELSE IF args.interval = 0
       \* ZeroDivisionError in SensorMonitor.__init__
       THEN pc' = "mon_raised" /\ UNCHANGED monitor
       ELSE /\ monitor' = SensorMonitor(args.server, args.interval,
                                        args.time_window)
            /\ pc' = IF args.historic THEN "mon_historic" ELSE "mon_live"
    /\ UNCHANGED <<args, fetched, frames, requests_sent, monitor_rest>>

\* a mode selection that would go on to live monitoring whatever the
\* historic load gave back
mode_selection_always_live(a, historic_loaded) ==
    IF historic_loaded = "NameError" THEN "mon_raised"
    ELSE IF ~a.continue_live THEN "mon_static"
    ELSE "mon_live"

\* where main() goes after fetch_and_plot_historic_data: the static plot,
\* run_live(), or the end of the program
mode_selection(a, historic_loaded) ==
    IF historic_loaded = "NameError" THEN "mon_raised"
    ELSE IF ~a.continue_live THEN "mon_static"
    ELSE IF historic_loaded = "True" THEN "mon_live"
    ELSE "mon_exit"

\* the historic branch of main()
HistoricFetch(reply, lib) ==
    /\ pc = "mon_historic"
    /\ LET answer == get(monitor.historic_endpoint, reply)
           r == fetch_and_plot_historic_data(monitor, answer, lib)
       IN  /\ monitor' = r.monitor
           /\ fetched' = [reply |-> answer, result |-> r.result]
           /\ pc' = mode_selection(args, r.result)
    /\ requests_sent' = requests_sent + sent(monitor.historic_endpoint)
    /\ UNCHANGED <<args, frames, monitor_rest>>

\* update_plot(frame): one tick of the animation; datetime.now() is the
\* number of the frame
UpdatePlot(reply, lib) ==
    /\ pc = "mon_live"
    /\ frames < MaxFrames
    /\ frames' = frames + 1
    /\ requests_sent' = requests_sent + sent(monitor.sensor_endpoint)
    /\ LET answer == get(monitor.sensor_endpoint, reply)
           r == fetch_sensor_data(answer, lib)
           current_time == frames + 1
           started == IF monitor.start_time = <<>>
                      THEN [monitor EXCEPT !.start_time = <<current_time>>]
                      ELSE monitor
       IN  /\ fetched' = [reply |-> answer, result |-> r.result]
           /\ monitor' = IF r.result = "data"
                         THEN append_sample(started, current_time,
                                            r.data["temperature_f"],
                                            r.data["pressure_pa"],
                                            r.data["humidity_percent"],
                                            r.data["altitude_ft"])
                         ELSE monitor
           /\ pc' = IF r.result = "NameError" THEN "mon_raised"
                    ELSE "mon_live"
    /\ UNCHANGED <<args, monitor_rest>>

NextMonitor ==
    \/ Main
    \/ \E reply \in HistoricReplies, lib \in Libraries :
          HistoricFetch(reply, lib)
    \/ \E reply \in SensorReplies, lib \in Libraries : UpdatePlot(reply, lib)

SpecMonitor == InitMonitor /\ [][NextMonitor]_vars

(***************************************************************************)
(* The axis scaling of the desktop monitors, update_data_ranges().  The    *)
(* text of ble_monitor.py is modelled: its range and step computation is   *)
(* the same as monitor.py's, and it places the labeled ticks itself.       *)
(* Values are decimal fixed-point numbers, in units of 1/10000: every      *)
(* value of the model and every product the function takes of them is a    *)
(* whole number of units, and no padded range of the model lies on a       *)
(* breakpoint of the step tables.                                          *)
(***************************************************************************)
Unit == 10000

min(S) == CHOOSE v \in S : \A o \in S : v <= o
max(S) == CHOOSE v \in S : \A o \in S : v >= o
abs(v) == IF v < 0 THEN 0 - v ELSE v

\* np.ceil(a / b) and np.floor(a / b) for b > 0
ceil_div(a, b) == 0 - ((0 - a) \div b)
floor_div(a, b) == a \div b

\* Python's round(a / b): to the nearest whole number, a tie to the even one
round_div(a, b) ==
    LET fl == (2 * a + b) \div (2 * b)
    IN  IF (2 * a + b) % (2 * b) = 0 /\ fl % 2 = 1 THEN fl - 1 ELSE fl

\* num_ticks_target
NUM_TICKS_TARGET == 5

\* the buffer of a series without spread
flat_buffer(key) ==
    IF key = "temperature" \/ key = "humidity" THEN Unit \div 2
    ELSE IF key = "pressure" THEN 50 * Unit
    ELSE 5 * Unit

\* a plausible slip: the buffer of a flat series is 10% of its value
padded_relative(key, current_min, current_max) ==
    LET data_range == current_max - current_min
        pad == IF data_range < 1 THEN current_min \div 10
                  ELSE data_range \div 10
    IN  [min_val |-> current_min - pad, max_val |-> current_max + pad]

\* min_val and max_val (pad is the code's buffer): data_range < 1e-6
\* holds for a whole number of units only when it is 0; otherwise the pad
\* is data_range * 0.10
padded(key, current_min, current_max) ==
    LET data_range == current_max - current_min
        pad == IF data_range < 1 THEN flat_buffer(key)
                  ELSE data_range \div 10
    IN  [min_val |-> current_min - pad, max_val |-> current_max + pad]

\* a plausible slip: the 0.5 step reaches up to a range of 5
major_step_wide_half(key, tick_range) ==
    IF key = "temperature"
    THEN IF tick_range <= 1 * Unit THEN Unit \div 5
         ELSE IF tick_range <= 5 * Unit THEN Unit \div 2
         ELSE IF tick_range <= 10 * Unit THEN 2 * Unit
         ELSE max({Unit, round_div(tick_range, NUM_TICKS_TARGET * Unit) * Unit})
    ELSE IF key = "pressure"
    THEN max({100 * Unit,
              ceil_div(tick_range, NUM_TICKS_TARGET * 100 * Unit) * 100 * Unit})
    ELSE IF key = "humidity"
    THEN IF tick_range <= 2 * Unit THEN Unit \div 2
         ELSE IF tick_range <= 5 * Unit THEN Unit
         ELSE IF tick_range <= 10 * Unit THEN 2 * Unit
         ELSE max({Unit, round_div(tick_range, NUM_TICKS_TARGET * Unit) * Unit})
    ELSE max({10 * Unit,
              ceil_div(tick_range, NUM_TICKS_TARGET * 10 * Unit) * 10 * Unit})

\* major_step, by family
major_step(key, tick_range) ==
    IF key = "temperature"
    THEN IF tick_range <= 1 * Unit THEN Unit \div 5
         ELSE IF tick_range <= 2 * Unit THEN Unit \div 2
         ELSE IF tick_range <= 5 * Unit THEN Unit
         ELSE IF tick_range <= 10 * Unit THEN 2 * Unit
         ELSE max({Unit, round_div(tick_range, NUM_TICKS_TARGET * Unit) * Unit})
    ELSE IF key = "pressure"
    THEN max({100 * Unit,
              ceil_div(tick_range, NUM_TICKS_TARGET * 100 * Unit) * 100 * Unit})
    ELSE IF key = "humidity"
    THEN IF tick_range <= 2 * Unit THEN Unit \div 2
         ELSE IF tick_range <= 5 * Unit THEN Unit
         ELSE IF tick_range <= 10 * Unit THEN 2 * Unit
         ELSE max({Unit, round_div(tick_range, NUM_TICKS_TARGET * Unit) * Unit})
    ELSE max({10 * Unit,
              ceil_div(tick_range, NUM_TICKS_TARGET * 10 * Unit) * 10 * Unit})

\* minor_step: a quarter of the major step for pressure, a fifth otherwise
minor_step(key, major) ==
    IF key = "pressure" THEN major \div 4 ELSE major \div 5

\* sorted(list(set(...)))
RECURSIVE sorted(_)
sorted(S) ==
    IF S = {} THEN <<>> ELSE <<min(S)>> \o sorted(S \ {min(S)})

\* tick_locations: the two limits and the multiples of the step between
\* them (np.arange stops before end_tick_val + major_step * 0.5)
tick_locations(min_val, max_val, major) ==
    LET start_tick_val == ceil_div(min_val, major) * major
        end_tick_val == floor_div(max_val, major) * major
        intermediate_ticks ==
            {start_tick_val + k * major :
                k \in 0..(IF end_tick_val >= start_tick_val
                          THEN (end_tick_val - start_tick_val) \div major
                          ELSE -1)}
    IN  sorted({min_val} \cup intermediate_ticks \cup {max_val})

\* the loop over tick_locations[1:], from the i-th location on (i counts
\* from 1): a location is kept when it is min_tick_spacing or more away
\* from the last one kept
RECURSIVE spaced(_, _, _, _)
spaced(final, locations, i, min_tick_spacing) ==
    IF i > Len(locations) THEN final
    ELSE spaced(IF abs(locations[i] - final[Len(final)]) >= min_tick_spacing
                THEN Append(final, locations[i])
                ELSE final,
                locations, i + 1, min_tick_spacing)

\* final_tick_locations: max_val is added again when the loop dropped it
\* and it is half of min_tick_spacing or more away from the last tick
final_tick_locations(min_val, max_val, major) ==
    LET locations == tick_locations(min_val, max_val, major)
        min_tick_spacing == major \div 10
        kept == spaced(<<locations[1]>>, locations, 2, min_tick_spacing)
        in_kept == \E k \in 1..Len(kept) : kept[k] = max_val
    IN  IF ~in_kept /\ 2 * abs(max_val - kept[Len(kept)]) >= min_tick_spacing
        THEN Append(kept, max_val)
        ELSE kept

\* one pass of the loop of update_data_ranges over a series that has points
update_data_ranges(key, data) ==
    LET values == {data[k] : k \in 1..Len(data)}
        lim == padded(key, min(values), max(values))
        major == major_step(key, lim.max_val - lim.min_val)
    IN  [scaled |-> TRUE,
         ylim |-> <<lim.min_val, lim.max_val>>,
         major_step |-> major,
         minor_step |-> minor_step(key, major),
         ticks |-> final_tick_locations(lim.min_val, lim.max_val, major)]

\* the points of the model, by family, in units: flat series, spreads in
\* every bucket of the step tables, and limits just above a step multiple
Points(key) ==
    IF key = "temperature"
    THEN {600000, 700000, 708000, 719000, 720000, 760000}
    ELSE IF key = "humidity" THEN {400000, 450000, 458000, 469000, 520000}
    ELSE IF key = "pressure" THEN {990000000, 1013000000, 1013250000}
    ELSE {5000000, 5120000, 9000000}

Families == {"temperature", "pressure", "humidity", "altitude"}

\* points of a series
MaxSeriesLen == 2

RECURSIVE SeriesOfLen(_, _)
SeriesOfLen(key, n) ==
    IF n = 0 THEN {<<>>}
    ELSE {Append(d, v) : d \in SeriesOfLen(key, n - 1), v \in Points(key)}

InitAxis ==
    /\ ServerIdle
    /\ gen = "main"
    /\ pc = "axis_scale"
    /\ historical_data = <<>>
    /\ flash_file = FileMissing
    /\ saved_history = <<>>
    /\ StartupNotRun
    /\ UploaderIdle
    /\ OledIdle
    /\ MonitorIdle
    /\ BleIdle
    /\ \E key \in Families, n \in 0..MaxSeriesLen :
          \E d \in SeriesOfLen(key, n) :
             axis_series = [key |-> key, data |-> d]
    /\ axis = NoAxis

\* update_data_ranges() for one series: nothing for a series with no point
UpdateDataRanges ==
    /\ pc = "axis_scale"
    /\ pc' = "axis_done"
    /\ axis' = IF axis_series.data = <<>> THEN axis
               ELSE update_data_ranges(axis_series.key, axis_series.data)
    /\ UNCHANGED <<axis_series, loop_vars, historical_data, flash_file,
                   saved_history, startup_vars, uploader_vars, oled_vars,
                   monitor_vars, ble_vars>>

NextAxis == UpdateDataRanges

SpecAxis == InitAxis /\ [][NextAxis]_vars

(***************************************************************************)
(* The desktop wireless monitor, ble_monitor.py.  main_async() constructs  *)
(* the SensorMonitorBLE, creates the task of run_ble_client() and calls    *)
(* run_animation(), which stays in plt.show() until the window is closed:  *)
(* the coroutine does not give the event loop back before that, so the     *)
(* task takes its first step when main_async() reaches `await ble_task`.   *)
(* While the window is open the animation timer calls update_plot().       *)
(***************************************************************************)

\* asyncio.Queue(): maxsize is 0, and a maxsize of 0 or less is no limit
QUEUE_MAXSIZE == 0

\* length of the payload of "<ffff"
PAYLOAD_LEN == 16

\* SensorMonitorBLE.__init__ (the plot objects are left out)
SensorMonitorBLE(update_interval, time_window_minutes) ==
    [constructed |-> TRUE,
     update_interval |-> update_interval,
     max_time_window_seconds |-> time_window_minutes * 60,
     start_time |-> <<>>,
     max_points |-> max_points(update_interval, time_window_minutes),
     timestamps |-> <<>>,
     temperature_data |-> <<>>,
     pressure_data |-> <<>>,
     humidity_data |-> <<>>,
     altitude_data |-> <<>>,
     connected |-> FALSE,
     client |-> "None",
     notification_queue |-> <<>>]

\* one little-endian 32-bit float, bytes b[i]..b[i+3], as the fields of
\* its IEEE 754 encoding
float32(b, i) ==
    [sign |-> b[i + 3] \div 128,
     exponent |-> (b[i + 3] % 128) * 2 + b[i + 2] \div 128,
     fraction |-> (b[i + 2] % 128) * 65536 + b[i + 1] * 256 + b[i]]

\* a plausible slip: the four floats are taken in big-endian order of the
\* payload, last one first
unpack_reversed(data) ==
    IF Len(data) # PAYLOAD_LEN THEN [raised |-> "struct.error", value |-> <<>>]
    ELSE [raised |-> "none",
          value |-> <<float32(data, 13), float32(data, 9), float32(data, 5),
                      float32(data, 1)>>]

\* struct.unpack("<ffff", data)
unpack(data) ==
    IF Len(data) # PAYLOAD_LEN THEN [raised |-> "struct.error", value |-> <<>>]
    ELSE [raised |-> "none",
          value |-> <<float32(data, 1), float32(data, 5), float32(data, 9),
                      float32(data, 13)>>]

\* notification_queue.put_nowait(item)
put_nowait(q, item) ==
    IF QUEUE_MAXSIZE > 0 /\ Len(q) >= QUEUE_MAXSIZE
    THEN [raised |-> "QueueFull", queue |-> q]
    ELSE [raised |-> "none", queue |-> Append(q, item)]

\* notification_handler(sender, data): the queue afterwards; both
\* exceptions are caught
notification_handler(q, data) ==
    LET u == unpack(data)
    IN  IF u.raised # "none" THEN q ELSE put_nowait(q, u.value).queue

\* the while loop of update_plot(), which empties the queue into the
\* series; now is datetime.now()
RECURSIVE drain(_, _)
drain(m, now) ==
    IF m.notification_queue = <<>> THEN m
    ELSE LET item == Head(m.notification_queue)
             started == IF m.start_time = <<>>
                        THEN [m EXCEPT !.start_time = <<now>>]
                        ELSE m
             taken == [started EXCEPT !.notification_queue = Tail(@)]
         IN  drain(append_sample(taken, now, item[1], item[2], item[3],
                                 item[4]),
                   now)

\* the payloads of the model: (72.5, 101325.0, 45.0, 512.0) and
\* (70.0, 101300.0, 40.0, 500.0) packed as "<ffff", the first one cut to
\* 15 bytes and extended to 17 bytes
PayloadA == <<0, 0, 145, 66, 128, 230, 197, 71, 0, 0, 52, 66, 0, 0, 0, 68>>
PayloadB == <<0, 0, 140, 66, 0, 218, 197, 71, 0, 0, 32, 66, 0, 0, 250, 67>>
Payloads == {PayloadA, PayloadB, SubSeq(PayloadA, 1, 15), PayloadA \o <<0>>}

\* notifications of one run
MaxNotifications == 3

InitBle ==
    /\ ServerIdle
    /\ gen = "main"
    /\ pc = "ble_main"
    /\ historical_data = <<>>
    /\ flash_file = FileMissing
    /\ saved_history = <<>>
    /\ StartupNotRun
    /\ UploaderIdle
    /\ OledIdle
    /\ MonitorIdle
    /\ AxisIdle
    /\ BleIdle

\* what no step of the wireless monitor changes
ble_rest == <<loop_vars, historical_data, flash_file, saved_history,
              startup_vars, uploader_vars, oled_vars, monitor_vars,
              axis_vars>>

Step(kind, slept, payload) ==
    ble_step' = [kind |-> kind, slept |-> slept, payload |-> payload,
                 notifications |-> ble_step.notifications]

\* main_async() up to plt.show(), with the defaults of main()
MainAsync ==
    /\ pc = "ble_main"
    /\ pc' = "ble_window"
    /\ ble' = SensorMonitorBLE(5, 1440)
    /\ Step("main_async", 0, <<>>)
    /\ UNCHANGED <<link, ble_rest>>

\* update_plot(frame), called by the animation timer while the window is
\* open
UpdatePlotBle ==
    /\ pc = "ble_window"
    /\ ble' = drain(ble, 1)
    /\ Step("update_plot", 0, <<>>)
    /\ UNCHANGED <<pc, link, ble_rest>>

\* the window is closed: run_animation() returns, main_async() awaits the
\* task and run_ble_client() starts
CloseWindow ==
    /\ pc = "ble_window"
    /\ pc' = "ble_scan"
    /\ Step("close", 0, <<>>)
    /\ UNCHANGED <<ble, link, ble_rest>>

\* one pass of the outer loop up to the connection: connected = False,
\* find_device_by_name(); asyncio.sleep(10) when no device was found.  An
\* exception of the scanner is not caught anywhere in run_ble_client().
Scan(outcome) ==
    /\ pc = "ble_scan"
    /\ ble' = [ble EXCEPT !.connected = FALSE]
    /\ IF outcome = "found"
       THEN pc' = "ble_connect" /\ Step("scan_found", 0, <<>>)
       ELSE IF outcome = "not_found"
       THEN pc' = "ble_scan" /\ Step("scan_not_found", 10, <<>>)
       ELSE pc' = "ble_task_failed" /\ Step("scan_raised", 0, <<>>)
    /\ UNCHANGED <<link, ble_rest>>

\* `async with BleakClient(device) as client:` and the start of the
\* notifications.  connect() raises out of run_ble_client(); a client that
\* is not connected skips the body; start_notify() raising is caught, the
\* finally clause stops the notifications and clears the flag, and the
\* loop sleeps 5 s before the next scan.
Connect(outcome) ==
    /\ pc = "ble_connect"
    /\ CASE outcome = "connect_raised" ->
              /\ pc' = "ble_task_failed"
              /\ Step("connect_raised", 0, <<>>)
              /\ UNCHANGED <<ble, link>>
         [] outcome = "not_connected" ->
              /\ pc' = "ble_scan"
              /\ Step("not_connected", 5, <<>>)
              /\ UNCHANGED <<ble, link>>
         [] outcome = "start_notify_raised" ->
              /\ pc' = "ble_scan"
              /\ Step("communication_error", 5, <<>>)
              /\ ble' = [ble EXCEPT !.connected = FALSE, !.client = "None"]
              /\ link' = NoLink
         [] OTHER ->
              /\ pc' = "ble_connected"
              /\ Step("connected", 0, <<>>)
              /\ ble' = [ble EXCEPT !.connected = TRUE, !.client = "client"]
              /\ link' = [is_connected |-> TRUE, notifying |-> TRUE]
    /\ UNCHANGED ble_rest

\* the device sends a notification while run_ble_client() sleeps in its
\* inner loop: the event loop calls notification_handler
Notification(data) ==
    /\ pc = "ble_connected"
    /\ link.is_connected /\ link.notifying
    /\ ble_step.notifications < MaxNotifications
    /\ ble' = [ble EXCEPT
                 !.notification_queue = notification_handler(@, data)]
    /\ ble_step' = [kind |-> "notification", slept |-> 0, payload |-> data,
                    notifications |-> ble_step.notifications + 1]
    /\ UNCHANGED <<pc, link, ble_rest>>

\* the radio link goes down
LinkDrops ==
    /\ pc = "ble_connected"
    /\ link.is_connected
    /\ link' = NoLink
    /\ Step("link_dropped", 0, <<>>)
    /\ UNCHANGED <<pc, ble, ble_rest>>

\* `while client.is_connected: await asyncio.sleep(1.0)`: one more second
\* while the link is up; otherwise the finally clause, the end of the
\* `async with` block and asyncio.sleep(5)
Poll ==
    /\ pc = "ble_connected"
    /\ IF link.is_connected
       THEN /\ Step("poll", 1, <<>>)
            /\ UNCHANGED <<pc, ble>>
       ELSE /\ Step("disconnected", 5, <<>>)
            /\ pc' = "ble_scan"
            /\ ble' = [ble EXCEPT !.connected = FALSE, !.client = "None"]
    /\ UNCHANGED <<link, ble_rest>>

ScanOutcomes == {"found", "not_found", "scan_raised"}
ConnectOutcomes == {"connected", "not_connected", "connect_raised",
                    "start_notify_raised"}

NextBle ==
    \/ MainAsync
    \/ UpdatePlotBle
    \/ CloseWindow
    \/ \E outcome \in ScanOutcomes : Scan(outcome)
    \/ \E outcome \in ConnectOutcomes : Connect(outcome)
    \/ \E data \in Payloads : Notification(data)
    \/ LinkDrops
    \/ Poll

SpecBle == InitBle /\ [][NextBle]_vars

\* The scheduling of ble_monitor.py: main_async() runs to plt.show(), the
\* animation timer keeps firing while the window is open, and the event
\* loop, once it runs, resumes run_ble_client() whenever its await is over.
\* Nothing obliges the user to close the window, the device to notify or
\* the link to drop.
SpecBleFair ==
    /\ InitBle /\ [][NextBle]_vars
    /\ WF_vars(MainAsync)
    /\ WF_vars(UpdatePlotBle)
    /\ WF_vars(\E outcome \in ScanOutcomes : Scan(outcome))
    /\ WF_vars(\E outcome \in ConnectOutcomes : Connect(outcome))
    /\ WF_vars(Poll)

(***************************************************************************)
(* The status display of main.py: oled_display_sensor() redraws the OLED   *)
(* on every successful sensor read, through the driver above.  The         *)
(* position pc runs through "status_startup", "status_periodic" (top of    *)
(* the server loop) and "status_accept".  oled_call holds the last         *)
(* oled_display_sensor call, its text being the ip_addr it was given.      *)
(***************************************************************************)
Digits == <<"0", "1", "2", "3", "4", "5", "6", "7", "8", "9">>

\* "{:02d}".format(n) for n in 0..99
two_digits(n) == <<Digits[(n \div 10) + 1], Digits[(n % 10) + 1]>>

\* the decimal digits of a whole number
RECURSIVE decimal(_)
decimal(n) ==
    IF n < 10 THEN <<Digits[n + 1]>>
    ELSE decimal(n \div 10) \o <<Digits[(n % 10) + 1]>>

\* "{:.1f}".format(v) for a whole-numbered reading
one_decimal(v) == decimal(v) \o <<".", "0">>

\* time.localtime(ts)[3:6] as "{:02d}:{:02d}:{:02d}"
time_str(ts) ==
    two_digits((ts \div 3600) % 24) \o <<":">>
        \o two_digits((ts \div 60) % 60) \o <<":">> \o two_digits(ts % 60)

\* network_info[0], the address the access point gave the device
IP_ADDRESS ==
    <<"1", "9", "2", ".", "1", "6", "8", ".", "0", ".", "2", "0", "1">>

\* oled_display_sensor(data_dict, ip_addr) with the display object in
\* place: clear(), three lines, the address as the fourth line when one
\* was passed (None is <<>>); the framebuffer that display() then sends.
\* Each print() starts at x = 0 on a page of its own and is clipped at the
\* display width, so the buffer after the four calls holds, page by page,
\* what each call draws on the cleared buffer.
oled_display_sensor(buf, data_dict, ip_addr) ==
    LET l1 == print(BlankBuffer, <<"T", "i", "m", "e", ":", " ">>
                                     \o time_str(data_dict.timestamp), 0, 0)
        l2 == print(BlankBuffer, <<"T", "e", "m", "p", ":", " ">>
                            \o one_decimal(data_dict.temperature_f)
                            \o <<"F">>, 0, 8)
        l3 == print(BlankBuffer, <<"H", "u", "m", ":", " ", " ">>
                            \o one_decimal(data_dict.humidity_percent)
                            \o <<"%">>, 0, 16)
        l4 == IF ip_addr # <<>> THEN print(BlankBuffer, ip_addr, 0, 24)
              ELSE BlankBuffer
    IN  [idx \in DOMAIN buf |->
            CASE idx \div _LCDWIDTH = 0 -> l1[idx]
              [] idx \div _LCDWIDTH = 1 -> l2[idx]
              [] idx \div _LCDWIDTH = 2 -> l3[idx]
              [] OTHER -> l4[idx]]

\* the data_dict _get_current_sensor_tuple builds for the display
display_dict(now) ==
    [timestamp |-> now, temperature_f |-> Reading[1].val,
     humidity_percent |-> Reading[3].val]

\* loop iterations of one run
MaxStatusIter == 3

\* the requests of this part: a route that reads the sensor, one that
\* does not
StatusRequests ==
    {<<"GET", " ", p, " ", "HTTP/1.1", CRLF, "Host:", " ", "pico">> :
        p \in {"/sensor", "/sensor?all=true"}}

\* milliseconds a blocking accept takes: less than a sampling interval or
\* a whole one
StatusDelays == {1000, SAVE_INTERVAL_S * 1000}

InitStatus ==
    /\ ServerIdle
    /\ gen = "main"
    /\ pc = "status_startup"
    /\ historical_data = <<>>
    /\ flash_file = FileMissing
    /\ saved_history = <<>>
    /\ StartupNotRun
    /\ UploaderIdle
    /\ OledIdle
    /\ DesktopIdle

\* what no step of this part changes
status_rest == <<gen, rtc_offset, last_flash_save_ticks_ms, state, led,
                 status_code, status_code_bound, conn, open_sockets, recv,
                 wire, raised, attempted_500, send_failed, n_loaded,
                 all_reads_ok, n_logged, flash_save, flash_prev, flash_file,
                 saved_history, startup_vars, uploader_vars, desktop_vars>>

\* one _get_current_sensor_tuple(ip_addr) call, seen from the display: a
\* read that went through redraws it, a read that raised leaves it alone
Redraw(s, now, ip_addr) ==
    IF s = "ok"
    THEN /\ buffer' = oled_display_sensor(buffer, display_dict(now), ip_addr)
         /\ bus' = display(buffer', 0).bus
         /\ oled_call' = [name |-> "oled_display_sensor", text |-> ip_addr,
                          x |-> 0, y |-> 0, fail_at |-> 0]
         /\ oled_result' = "None"
         /\ oled_calls' = oled_calls + 1
    ELSE UNCHANGED oled_vars

\* main() before its loop: after init_oled() a first read with
\* ip_address = None (line 253), which leaves three lines when it goes
\* through; after the Wi-Fi join a read with the address (line 321)
StatusStartup(s) ==
    /\ pc = "status_startup"
    /\ pc' = "status_periodic"
    /\ Redraw(s, time_time(ticks_ms, rtc_offset), IP_ADDRESS)
    /\ last_read' = s
    /\ UNCHANGED <<ticks_ms, iters, last_save_ticks_ms, historical_data,
                   log_outcome, request, status_rest>>

\* top of the loop: log_historical_data(), whose read passes no address
StatusPeriodic(s) ==
    /\ pc = "status_periodic"
    /\ pc' = "status_accept"
    /\ LET r == log_historical_data(gen, historical_data, last_save_ticks_ms,
                                    ticks_ms, rtc_offset, s)
       IN  /\ historical_data' = r.hist
           /\ last_save_ticks_ms' = r.last
           /\ log_outcome' = r.outcome
           /\ IF r.outcome = "notdue"
              THEN UNCHANGED <<oled_vars, last_read>>
              ELSE /\ Redraw(s, time_time(ticks_ms, rtc_offset), <<>>)
                   /\ last_read' = s
    /\ UNCHANGED <<ticks_ms, iters, request, status_rest>>

\* accept after d ms and the handling of the request: the routes that read
\* the sensor pass ip_address
StatusRequest(d, req, s) ==
    /\ pc = "status_accept"
    /\ iters < MaxStatusIter
    /\ iters' = iters + 1
    /\ ticks_ms' = ticks_ms + d
    /\ request' = req
    /\ pc' = "status_periodic"
    /\ IF ReadsSensor(req)
       THEN /\ Redraw(s, time_time(ticks_ms', rtc_offset), IP_ADDRESS)
            /\ last_read' = s
       ELSE UNCHANGED <<oled_vars, last_read>>
    /\ UNCHANGED <<last_save_ticks_ms, historical_data, log_outcome,
                   status_rest>>

NextStatus ==
    \/ \E s \in SensorOutcomes : StatusStartup(s)
    \/ \E s \in SensorOutcomes : StatusPeriodic(s)
    \/ \E d \in StatusDelays, req \in StatusRequests, s \in SensorOutcomes :
          StatusRequest(d, req, s)

SpecStatus == InitStatus /\ [][NextStatus]_vars

(***************************************************************************)
(* Vocabulary of the properties                                            *)
(***************************************************************************)
GetRequest(p) ==
    <<"GET", " ", p, " ", "HTTP/1.1", CRLF, "Host:", " ", "pico">>

\* the last connection was accepted, a request was read from it and its
\* handling is over
Handled == pc = "periodic" /\ recv = "data"

\* ... and no send to the peer failed
Answered == Handled /\ ~send_failed

\* the words of the request before its first line break
FirstBreak(req) ==
    IF \E i \in 1..Len(req) : req[i] = CRLF
    THEN CHOOSE i \in 1..Len(req) :
            req[i] = CRLF /\ \A k \in 1..(i - 1) : req[k] # CRLF
    ELSE Len(req) + 1

TokenCount(req) ==
    Cardinality({i \in 1..(FirstBreak(req) - 1) : req[i] # " "})

SecondToken(req) ==
    LET idx == {i \in 1..(FirstBreak(req) - 1) : req[i] # " "}
        first == CHOOSE i \in idx : \A k \in idx : i <= k
        second == CHOOSE i \in idx \ {first} : \A k \in idx \ {first} : i <= k
    IN  req[second]

RegisteredPaths == {"/", "/?", "/lighton", "/lighton?", "/lightoff",
                    "/lightoff?", "/sensor", "/sensor?", "/sensor?all=true"}

NowS == time_time(ticks_ms, rtc_offset)

(***************************************************************************)
(* C1  In main.py a GET /sensor whose sensor read yields all fields is     *)
(* answered 200 with a JSON object of the five keys timestamp,             *)
(* temperature_f, pressure_pa, humidity_percent, altitude_ft; one whose    *)
(* sensor read fails is answered 503 with {"error": "Sensor read failure"}.*)
(***************************************************************************)
C1_SensorRouteAnswer ==
    (gen = "main" /\ Answered
       /\ request \in {GetRequest("/sensor"), GetRequest("/sensor?")})
    => IF last_read = "ok"
       THEN /\ Len(wire) = 4
            /\ wire[1] = StatusLine(200, "OK")
            /\ wire[4].body.kind = "json"
            /\ wire[4].body.json.j = "object"
            /\ wire[4].body.json.keys = SensorKeys
       ELSE /\ Len(wire) = 4
            /\ wire[1] = StatusLine(503, "OK")
            /\ wire[4] = BodyLine(JsonBody(SensorFailure))

(***************************************************************************)
(* C2  GET /sensor?all=true is answered 200 with a JSON array whose length *)
(* is the length of the in-memory history and whose every element has      *)
(* exactly 5 entries, in the order timestamp, temperature, pressure,       *)
(* humidity, altitude.                                                     *)
(***************************************************************************)
C2_HistoryAnswer ==
    (Answered /\ request = GetRequest("/sensor?all=true"))
    => /\ Len(wire) = 4
       /\ wire[1] = StatusLine(200, "OK")
       /\ wire[4].body.kind = "json"
       /\ wire[4].body.json.j = "array"
       /\ Len(wire[4].body.json.els) = Len(historical_data)
       /\ \A i \in 1..Len(wire[4].body.json.els) :
             LET e == wire[4].body.json.els[i].els
             IN  /\ Len(e) = 5
                 /\ e[1] = JNumber(historical_data[i][1].val)
                 /\ \A k \in 1..4 : e[k + 1] = JNumber(Reading[k].val)

(***************************************************************************)
(* C3  In main.py every GET of /, /lighton or /lightoff is answered 200    *)
(* with content type text/html and the control page, showing the four      *)
(* values when the sensor read succeeds and N/A when it fails.             *)
(***************************************************************************)
C3_PageAnswer ==
    (gen = "main" /\ Answered
       /\ request \in {GetRequest("/"), GetRequest("/lighton"),
                       GetRequest("/lightoff?")})
    => /\ Len(wire) = 4
       /\ wire[1] = StatusLine(200, "OK")
       /\ wire[2] = Header("Content-type", "text/html")
       /\ wire[4].body.kind = "html"
       /\ \A k \in 1..4 :
             wire[4].body.fields[k] =
                IF last_read = "ok" THEN Fmt2(Reading[k]) ELSE Fmt2(PyNone)

C5_LoopNeverTerminates == pc # "crashed"

(***************************************************************************)
(* C6  Every connection returned by accept is closed before the server's   *)
(* next call to accept, whichever way its handling ends.                   *)
(***************************************************************************)
C6_ClosedBeforeNextAccept ==
    /\ pc # "handle" => open_sockets = 0
    /\ pc = "handle" => open_sockets = 1

\* the handling ended in the except Exception handler, whose own send of the
\* 500 response failed, and the connection is closed
C6_Witness ==
    /\ pc = "periodic"
    /\ raised = "Exception"
    /\ attempted_500
    /\ send_failed
    /\ open_sockets = 0

(***************************************************************************)
(* C7  When a non-OS exception is raised while a request is handled and no *)
(* non-200 status was decided for that request, the server attempts to     *)
(* send the 500 response, whatever status an earlier request was given.    *)
(***************************************************************************)
C7_Attempts500 ==
    (pc = "periodic" /\ raised = "Exception") => attempted_500

(***************************************************************************)
(* C8, as stated: in a run in which all sensor reads succeed the history   *)
(* gains exactly one record per elapsed sampling interval, and the record  *)
(* timestamps are non-decreasing in list order.                            *)
(***************************************************************************)
C8_OnePerElapsedInterval ==
    (pc = "accept" /\ all_reads_ok)
    => /\ n_logged = ticks_ms \div (SaveIntervalOf(gen) * 1000)
       /\ \A i \in 1..(Len(historical_data) - 1) :
             historical_data[i][1].val <= historical_data[i + 1][1].val

(***************************************************************************)
(* C8, amended: in a run in which all sensor reads succeed, a maybe-log    *)
(* step appends one record when at least one sampling interval of ticks    *)
(* has elapsed since the last logged sample and none otherwise: after the  *)
(* step less than one interval has elapsed since the last sample, and the  *)
(* records logged in the run are at least one interval apart, so never two *)
(* for one interval and in non-decreasing timestamp order.                 *)
(***************************************************************************)
C8_AtMostOnePerInterval ==
    /\ (pc = "accept" /\ all_reads_ok)
       => ticks_diff(ticks_ms, last_save_ticks_ms) < SaveIntervalOf(gen) * 1000
    /\ \A i \in (n_loaded + 1)..(Len(historical_data) - 1) :
          historical_data[i + 1][1].val - historical_data[i][1].val
             >= SaveIntervalOf(gen)

\* two records were logged in a run that is more than two intervals old on
\* top of them: intervals went by without a record
C8_Witness ==
    /\ pc = "accept"
    /\ all_reads_ok
    /\ n_logged = 2
    /\ log_outcome = "logged"
    /\ Len(historical_data) >= n_loaded + 2
    /\ ticks_ms \div (SaveIntervalOf(gen) * 1000) > n_logged + 1

(***************************************************************************)
(* C9  Immediately after the prune pass that follows an append, no record  *)
(* of the history is older than now - 86400 s, also for a history reloaded *)
(* from flash and for records stamped before the clock was changed.        *)
(***************************************************************************)
C9_NothingOlderThanRetention ==
    (pc = "accept" /\ log_outcome = "logged")
    => \A i \in 1..Len(historical_data) :
          historical_data[i][1].val >= NowS - HISTORY_DURATION_S

(***************************************************************************)
(* C10  When maybe-log is due and the sensor reading is unavailable, no    *)
(* record is appended and the last-sample tick is reset to the current     *)
(* tick.                                                                   *)
(***************************************************************************)
C10_FailedReadResetsTick ==
    (pc = "accept" /\ log_outcome \in {"skipped", "raised"})
    => last_save_ticks_ms = ticks_ms

(***************************************************************************)
(* C11: a flash save is attempted only in a loop iteration where at least  *)
(* 900 s of ticks have elapsed since the last successful save (or since    *)
(* startup); a successful save resets the flash-save tick to the current   *)
(* tick; a failed save leaves it unchanged, and the save is attempted      *)
(* again in the very next loop iteration.                                  *)
(***************************************************************************)
C11_FlashSaveTiming ==
    [][(pc = "periodic" /\ pc' = "accept") =>
         /\ flash_save' \in {"ok", "failed"} =>
               ticks_diff(ticks_ms, last_flash_save_ticks_ms) >= 900 * 1000
         /\ flash_save' = "ok" => last_flash_save_ticks_ms' = ticks_ms'
         /\ flash_save' = "failed" =>
               last_flash_save_ticks_ms' = last_flash_save_ticks_ms
         /\ flash_save = "failed" => flash_save' \in {"ok", "failed"}]_vars

\* a save failed in one iteration and succeeded in the next one
C11_Witness ==
    /\ pc = "accept"
    /\ flash_prev = "failed"
    /\ flash_save = "ok"
    /\ last_flash_save_ticks_ms = ticks_ms

JustStarted == log_outcome = "none"

C13_LoadAtStartup ==
    JustStarted =>
       /\ pc = "periodic"
       /\ flash_file.j \in {"missing", "malformed", "object"} =>
             historical_data = <<>>
       /\ flash_file.j = "array" =>
             /\ Len(historical_data) = Len(flash_file.els)
             /\ \A i \in 1..Len(flash_file.els) :
                   /\ Len(historical_data[i]) = Len(flash_file.els[i].els)
                   /\ \A k \in 1..Len(flash_file.els[i].els) :
                         historical_data[i][k] = Num(flash_file.els[i].els[k].n)

\* a startup that found a saved list of two records or more
C13_Witness ==
    /\ JustStarted
    /\ pc = "periodic"
    /\ flash_file.j = "array"
    /\ Len(flash_file.els) >= 2
    /\ Len(historical_data) >= 2

(***************************************************************************)
(* C14: a sensor read returns either all four values or a result in which  *)
(* every field is absent; for a failed read the all-fields-present test    *)
(* of the callers (log_historical_data and the /sensor route) evaluates to *)
(* false rather than failing.                                              *)
(***************************************************************************)
C14_ValidityTestNeverFails ==
    /\ log_outcome # "raised"
    /\ (Handled /\ last_read = "fail"
          /\ request \in {GetRequest("/sensor"), GetRequest("/sensor?")})
       => raised # "Exception"

(***************************************************************************)
(* C15: in each upload cycle the device reboot call is issued if and only  *)
(* if 60 consecutive inner-loop attempts have all failed; never after      *)
(* fewer than 60 failed attempts nor after a successful POST; and when     *)
(* issued it is issued exactly once.                                       *)
(***************************************************************************)
C15_RebootAfterSixtyFailures ==
    /\ [](pc = "up_reset" <=> (pc \in {"up_attempt", "up_reset"}
                                /\ retries = 60))
    /\ [](posted => pc # "up_reset" /\ retries < 60)
    /\ [](reset_calls <= 1)
    /\ [][reset_calls' # reset_calls /\ reset_calls' # 0
            => /\ pc = "up_reset" /\ retries = 60 /\ ~posted
               /\ reset_calls' = 1
               /\ pc' = "up_configure"]_vars

\* the reboot call was issued and the device is starting again
C15_Witness ==
    /\ pc = "up_configure"
    /\ reset_calls = 1
    /\ assoc_attempts = 0

(***************************************************************************)
(* C16: configure_station retries association indefinitely: while the      *)
(* radio reports no connectivity it does not return, so the upload loop    *)
(* never starts on an unassociated device.                                 *)
(***************************************************************************)
C16_ReturnsOnlyAssociated ==
    pc \in {"up_cycle", "up_attempt", "up_reset"} => sta_seen_connected

(***************************************************************************)
(* C17: at startup the connection status is polled for at most 15          *)
(* one-second ticks; if the status is not 3 when polling ends, startup     *)
(* raises and the server never binds or listens; the listening socket is   *)
(* created only in runs where the status was 3.                            *)
(***************************************************************************)
C17_StartupNeedsConnection ==
    /\ [](15 - connection_timeout \in 0..15)
    /\ [](pc = "wifi_poll" => connection_timeout > 0)
    /\ [][pc = "wifi_check" /\ wlan_status' # 3
            => pc' = "startup_raised"]_vars
    /\ [][pc = "startup_raised" => pc' = "startup_raised"]_vars
    /\ [](pc = "startup_raised" => ~listening)
    /\ [](listening => wlan_status = 3)

\* all 15 polls were used up and the join failed
C17_Witness ==
    /\ pc = "startup_raised"
    /\ connection_timeout = 0
    /\ wlan_status # 3
    /\ ~listening

(***************************************************************************)
(* C18: begin() returns failure whenever any bus transaction it issues     *)
(* fails - a command of the initialization sequence or a write of the      *)
(* final framebuffer flush - and success only when all of them succeeded;  *)
(* it never raises to the caller.                                          *)
(***************************************************************************)
C18_BeginReportsBusFailure ==
    oled_call.name = "begin" =>
       /\ oled_result \in {"True", "False"}
       /\ oled_result = "False" <=> oled_call.fail_at \in 1..63

(***************************************************************************)
(* C19: for every text, every x and every y with y // 8 >= 4, print leaves *)
(* the whole framebuffer unchanged, issues no bus transaction and raises   *)
(* no error.                                                               *)
(***************************************************************************)
PrintStep == oled_calls' = oled_calls + 1 /\ oled_call'.name = "print"

C19_PrintBelowDisplayIsNoOp ==
    [][(PrintStep /\ oled_call'.y \div 8 >= 4) =>
         /\ buffer' = buffer
         /\ bus' = <<>>
         /\ oled_result' = "None"]_vars

\* a text was printed below the display onto a framebuffer that holds the
\* glyph of an earlier print
C19_Witness ==
    /\ oled_call.name = "print"
    /\ oled_call.y \div 8 >= 4
    /\ oled_call.text = <<"H", "i">>
    /\ oled_calls = 2
    /\ buffer[384] = 127

(***************************************************************************)
(* C20: print(text, x, y) with 0 <= y < 32 and x >= 0: for every character *)
(* index i whose character has a glyph and every column c in 0..4 with     *)
(* x + 6*i + c < 128, the framebuffer byte at (y // 8) * 128 + x + 6*i + c *)
(* equals glyph[c] afterwards; a character with no glyph writes nothing,   *)
(* raises nothing and still occupies a 6-pixel cell; every other           *)
(* framebuffer byte is unchanged.                                          *)
(***************************************************************************)
C20_PrintRasterizes ==
    [][(PrintStep /\ oled_call'.y \in 0..31 /\ oled_call'.x >= 0) =>
         LET text == oled_call'.text
             x == oled_call'.x
             y == oled_call'.y
             Cells == {ic \in (0..(Len(text) - 1)) \X (0..4) :
                         /\ text[ic[1] + 1] \in DOMAIN _FONT
                         /\ x + 6 * ic[1] + ic[2] < 128}
             At(ic) == (y \div 8) * 128 + x + 6 * ic[1] + ic[2]
         IN  /\ \A ic \in Cells :
                   buffer'[At(ic)] = _FONT[text[ic[1] + 1]][ic[2] + 1]
             /\ \A idx \in 0..511 :
                   (\A ic \in Cells : At(ic) # idx) => buffer'[idx] = buffer[idx]
             /\ oled_result' = "None"]_vars

\* "7aF" at the left edge of page 1: "a" has no glyph, its cell stays as it
\* was, and "F" stands in the third cell
C20_Witness ==
    /\ oled_call.name = "print"
    /\ oled_call.text = <<"7", "a", "F">>
    /\ oled_call.x = 0
    /\ oled_call.y = 9
    /\ buffer[128] = 1
    /\ buffer[128 + 6] = 0
    /\ buffer[128 + 12] = 127

(***************************************************************************)
(* C21: a display() call whose bus transactions all succeed issues, in     *)
(* this order, the column-address command with range 0..127, the           *)
(* page-address command with range 0..3, and then exactly 32 data          *)
(* transactions of 16 bytes each, prefixed with the data control byte      *)
(* 0x40, whose payloads concatenated in order equal the 512-byte           *)
(* framebuffer; the framebuffer itself is not changed by display().        *)
(***************************************************************************)
DisplayStep == oled_calls' = oled_calls + 1 /\ oled_call'.name = "display"

C21_DisplayFlushesFramebuffer ==
    [][(DisplayStep /\ oled_call'.fail_at = 0) =>
         /\ Len(bus') = 6 + 32
         /\ SubSeq(bus', 1, 6) =
               <<[kind |-> "writeto", bytes |-> <<0, 33>>],
                 [kind |-> "writeto", bytes |-> <<0, 0>>],
                 [kind |-> "writeto", bytes |-> <<0, 127>>],
                 [kind |-> "writeto", bytes |-> <<0, 34>>],
                 [kind |-> "writeto", bytes |-> <<0, 0>>],
                 [kind |-> "writeto", bytes |-> <<0, 3>>]>>
         /\ \A k \in 1..32 : /\ bus'[6 + k].kind = "writeto_mem"
                              /\ bus'[6 + k].memaddr = 64
                              /\ Len(bus'[6 + k].bytes) = 16
         /\ \A idx \in 0..511 :
               bus'[6 + (idx \div 16) + 1].bytes[(idx % 16) + 1] = buffer[idx]
         /\ buffer' = buffer]_vars

\* a framebuffer that holds the "H" of an earlier print on page 1 was sent:
\* its first column is the first byte of the ninth data transaction
C21_Witness ==
    /\ oled_call.name = "display"
    /\ oled_call.fail_at = 0
    /\ oled_calls = 2
    /\ buffer[128] = 127
    /\ Len(bus) = 38
    /\ bus[6 + 9].bytes[1] = 127

(***************************************************************************)
(* C22: in the desktop polling monitor, a tick whose fetch fails (network  *)
(* error, non-200 status, malformed JSON body, or a JSON object missing    *)
(* one of the four expected keys) appends nothing: the five rolling series *)
(* and the session start time are unchanged, and the update loop continues *)
(* with the next tick.                                                     *)
(***************************************************************************)
TickStep == frames' = frames + 1

FailedFetch(reply) ==
    \/ reply.net = "error"
    \/ reply.status # 200
    \/ reply.body.kind = "malformed"
    \/ /\ reply.body.kind = "object"
       /\ ~(ExpectedKeys \subseteq DOMAIN reply.body.members)

C22_FailedFetchAppendsNothing ==
    [][(TickStep /\ FailedFetch(fetched'.reply)) =>
         /\ monitor'.timestamps = monitor.timestamps
         /\ monitor'.temperature_data = monitor.temperature_data
         /\ monitor'.pressure_data = monitor.pressure_data
         /\ monitor'.humidity_data = monitor.humidity_data
         /\ monitor'.altitude_data = monitor.altitude_data
         /\ monitor'.start_time = monitor.start_time
         /\ pc' = "mon_live"]_vars

(***************************************************************************)
(* C23: the capacity of each rolling series is                             *)
(* ceil(max_window_seconds / update_interval * 1.1), which for             *)
(* update_interval = 5 and time_window_minutes = 60 is 792; after          *)
(* appending n points to a series, it holds exactly the most recent        *)
(* min(n, capacity) points in arrival order.                               *)
(***************************************************************************)
\* the last k items of a sequence (all of it when it is shorter)
Last(d, k) == IF Len(d) > k THEN SubSeq(d, Len(d) - k + 1, Len(d)) ELSE d

C23_SeriesCapacity ==
    /\ [](monitor.constructed =>
            LET w == monitor.max_time_window_seconds
                u == monitor.update_interval
            IN  /\ 10 * u * monitor.max_points >= 11 * w
                /\ 10 * u * (monitor.max_points - 1) < 11 * w
                /\ (u = 5 /\ w = 3600) => monitor.max_points = 792)
    /\ [][(TickStep /\ fetched'.result = "data") =>
            LET cap == monitor.max_points
                d == fetched'.reply.body.members
            IN  /\ monitor'.timestamps =
                      Last(Append(monitor.timestamps, frames'), cap)
                /\ monitor'.temperature_data =
                      Last(Append(monitor.temperature_data,
                                  d["temperature_f"]), cap)
                /\ monitor'.pressure_data =
                      Last(Append(monitor.pressure_data, d["pressure_pa"]),
                           cap)
                /\ monitor'.humidity_data =
                      Last(Append(monitor.humidity_data,
                                  d["humidity_percent"]), cap)
                /\ monitor'.altitude_data =
                      Last(Append(monitor.altitude_data, d["altitude_ft"]),
                           cap)]_vars

(***************************************************************************)
(* C30: for every combination of command-line flags of the polling monitor *)
(* (including --historic), the monitor is constructed and network activity *)
(* begins only if --interval is within 1..3600 and --time-window is within *)
(* 1..2880 and --continue is not given without --historic; every other     *)
(* combination aborts with a usage error before any network activity.      *)
(***************************************************************************)
ValidArgs(a) ==
    /\ a.interval >= 1 /\ a.interval <= 3600
    /\ a.time_window >= 1 /\ a.time_window <= 2880
    /\ ~(a.continue_live /\ ~a.historic)

C30_OnlyValidArgsStart ==
    /\ (monitor.constructed \/ requests_sent > 0) => ValidArgs(args)
    /\ (~ValidArgs(args) /\ pc # "mon_main") =>
          pc = "mon_usage_error" /\ requests_sent = 0

(***************************************************************************)
(* C24: axis scaling for a temperature series with minimum 70.0 and        *)
(* maximum 72.0 yields the padded range [69.8, 72.2] (each side padded by  *)
(* 10% of the spread) and a major tick step of 0.5.                        *)
(***************************************************************************)
Temperature70To72 ==
    /\ axis.scaled
    /\ axis_series.key = "temperature"
    /\ min({axis_series.data[k] : k \in 1..Len(axis_series.data)}) = 700000
    /\ max({axis_series.data[k] : k \in 1..Len(axis_series.data)}) = 720000

C24_PaddedRangeAndHalfStep ==
    Temperature70To72 =>
       /\ axis.ylim = <<698000, 722000>>
       /\ axis.major_step = 5000

\* amended: the padded spread 2.4 lies in the bucket above 2 and up to 5,
\* whose major step is 1.0
C24_PaddedRangeAndUnitStep ==
    Temperature70To72 =>
       /\ axis.ylim = <<698000, 722000>>
       /\ axis.major_step = 10000

C24_Witness ==
    /\ Temperature70To72
    /\ axis_series.data = <<720000, 700000>>
    /\ axis.ticks = <<698000, 700000, 710000, 720000, 722000>>

(***************************************************************************)
(* C25: axis scaling for a series whose spread (max - min) is below 1e-6   *)
(* pads symmetrically by a fixed absolute buffer chosen by series family - *)
(* 0.5 for temperature and humidity, 50 for pressure, 5 for altitude - so  *)
(* a temperature series whose points all equal 70.0 gets the range         *)
(* [69.5, 70.5]; any series with a larger spread is padded by 10% of the   *)
(* spread on each side.                                                    *)
(***************************************************************************)
C25_FlatSeriesFixedBuffer ==
    axis.scaled =>
       LET values == {axis_series.data[k] : k \in 1..Len(axis_series.data)}
           lo == CHOOSE v \in values : \A o \in values : v <= o
           hi == CHOOSE v \in values : \A o \in values : v >= o
           key == axis_series.key
       IN  /\ (hi = lo /\ key \in {"temperature", "humidity"}) =>
                 axis.ylim = <<lo - 5000, hi + 5000>>
           /\ (hi = lo /\ key = "pressure") =>
                 axis.ylim = <<lo - 500000, hi + 500000>>
           /\ (hi = lo /\ key = "altitude") =>
                 axis.ylim = <<lo - 50000, hi + 50000>>
           /\ (hi = lo /\ key = "temperature" /\ lo = 700000) =>
                 axis.ylim = <<695000, 705000>>
           /\ hi > lo =>
                 /\ 10 * (lo - axis.ylim[1]) = hi - lo
                 /\ 10 * (axis.ylim[2] - hi) = hi - lo

\* a temperature series of two points, both 70.0
C25_Witness ==
    /\ axis.scaled
    /\ axis_series = [key |-> "temperature", data |-> <<700000, 700000>>]
    /\ axis.ylim = <<695000, 705000>>

(***************************************************************************)
(* C26: for every non-empty series, the labeled major Y ticks produced by  *)
(* axis scaling always include both the exact padded minimum and the exact *)
(* padded maximum, and no two adjacent labeled ticks are closer than 10%   *)
(* of the major step.                                                      *)
(***************************************************************************)
C26_TicksIncludeLimitsAndKeepApart ==
    axis.scaled =>
       /\ \E k \in 1..Len(axis.ticks) : axis.ticks[k] = axis.ylim[1]
       /\ \E k \in 1..Len(axis.ticks) : axis.ticks[k] = axis.ylim[2]
       /\ \A k \in 1..(Len(axis.ticks) - 1) :
             10 * (axis.ticks[k + 1] - axis.ticks[k]) >= axis.major_step

(***************************************************************************)
(* C27: in the wireless monitor, a notification payload whose length is    *)
(* not exactly 16 bytes is discarded: nothing is put on the hand-off       *)
(* queue, the series are unchanged, and the callback does not raise; each  *)
(* 16-byte payload puts exactly one 4-tuple on the queue with its fields   *)
(* in the order (temperature, pressure, humidity, altitude).               *)
(***************************************************************************)
NotificationStep ==
    /\ ble_step'.kind = "notification"
    /\ ble_step'.notifications = ble_step.notifications + 1

\* the single-precision encodings of 72.5, 101325.0, 45.0, 512.0 and of
\* 70.0, 101300.0, 40.0, 500.0
F32(exponent, fraction) ==
    [sign |-> 0, exponent |-> exponent, fraction |-> fraction]
TupleA == <<F32(133, 1114112), F32(143, 4580992), F32(132, 3407872),
            F32(136, 0)>>
TupleB == <<F32(133, 786432), F32(143, 4577792), F32(132, 2097152),
            F32(135, 7995392)>>

C27_OnlySixteenBytePayloadsQueued ==
    [][NotificationStep =>
         LET data == ble_step'.payload
             q == ble.notification_queue
             q2 == ble'.notification_queue
         IN  /\ pc' = pc
             /\ ble'.timestamps = ble.timestamps
             /\ ble'.temperature_data = ble.temperature_data
             /\ ble'.pressure_data = ble.pressure_data
             /\ ble'.humidity_data = ble.humidity_data
             /\ ble'.altitude_data = ble.altitude_data
             /\ Len(data) # 16 => q2 = q
             /\ Len(data) = 16 =>
                   /\ Len(q2) = Len(q) + 1
                   /\ SubSeq(q2, 1, Len(q)) = q
                   /\ Len(q2[Len(q2)]) = 4
                   /\ data = PayloadA => q2[Len(q2)] = TupleA
                   /\ data = PayloadB => q2[Len(q2)] = TupleB]_vars

\* two readings are queued in their order of arrival and a payload of 15
\* bytes, the last notification, has left the queue as it was
C27_Witness ==
    /\ ble.constructed
    /\ ble_step.kind = "notification"
    /\ Len(ble_step.payload) = 15
    /\ ble.notification_queue = <<TupleA, TupleB>>

(***************************************************************************)
(* C28: the hand-off queue between the notification callback and the       *)
(* rendering loop is bounded: under any interleaving of notifications and  *)
(* redraws its length never exceeds a fixed capacity, and a notification   *)
(* that arrives while the queue is full is dropped (the queued items are   *)
(* kept) without blocking the callback.                                    *)
(***************************************************************************)
C28_HandOffQueueBounded ==
    ble.constructed =>
       /\ QUEUE_MAXSIZE > 0
       /\ Len(ble.notification_queue) <= QUEUE_MAXSIZE

(***************************************************************************)
(* C29: the wireless monitor's reconnect loop never terminates on its own: *)
(* after a scan that finds no device it waits 10 s and scans again; after  *)
(* a connection that was established and then dropped (or a communication  *)
(* error) it marks itself disconnected, waits 5 s and scans again; the     *)
(* connected flag is true only between a successful connect and the end of *)
(* that connection.                                                        *)
(***************************************************************************)
C29_ReconnectLoopNeverEnds ==
    /\ [](pc # "ble_task_failed")
    /\ [](ble.constructed => (ble.connected => pc = "ble_connected"))
    /\ [][(pc = "ble_scan" /\ ble_step'.kind = "scan_not_found") =>
            ble_step'.slept = 10 /\ pc' = "ble_scan"]_vars
    /\ [][(pc \in {"ble_connect", "ble_connected"} /\ pc' # pc
           /\ ble_step'.kind \in {"disconnected", "communication_error"}) =>
            /\ ~ble'.connected
            /\ ble_step'.slept = 5
            /\ pc' = "ble_scan"]_vars

(***************************************************************************)
(* C31: after a historic fetch that returns a non-empty list of            *)
(* well-formed 5-element records, the five rolling series contain exactly  *)
(* the fetched records in their original order (the most recent capacity   *)
(* of them when there are more) and nothing that was in the series before  *)
(* the fetch, and the session start time is the timestamp of the first     *)
(* retained historic record.                                               *)
(***************************************************************************)
HistoricStep == pc = "mon_historic" /\ pc' # "mon_historic"

WellFormedList(reply) ==
    /\ raise_for_status(reply) = "ok"
    /\ reply.body.kind = "array"
    /\ reply.body.entries # <<>>
    /\ \A i \in 1..Len(reply.body.entries) : Len(reply.body.entries[i]) = 5

\* the j-th values of the records a series of capacity cap retains
Column(entries, j, cap) ==
    LET kept == Last(entries, cap)
    IN  [i \in 1..Len(kept) |-> kept[i][j]]

\* a monitor that already holds a point when the fetch begins
Preloaded(m) == append_sample(m, 1, 68, 101000, 50, 480)

C31_HistoricLoadReplacesSeries ==
    [][(HistoricStep /\ WellFormedList(fetched'.reply)) =>
         LET es == fetched'.reply.body.entries
             cap == monitor.max_points
             again == fetch_and_plot_historic_data(
                          Preloaded(monitor), fetched'.reply,
                          "json_error_is_value_error").monitor
         IN  /\ monitor'.timestamps = Column(es, 1, cap)
             /\ monitor'.temperature_data = Column(es, 2, cap)
             /\ monitor'.pressure_data = Column(es, 3, cap)
             /\ monitor'.humidity_data = Column(es, 4, cap)
             /\ monitor'.altitude_data = Column(es, 5, cap)
             /\ cap > 0 => monitor'.start_time = <<Last(es, cap)[1][1]>>
             /\ again = monitor']_vars

\* two records were fetched into series of capacity one: the later record
\* is the one retained
C31_Witness ==
    /\ pc = "mon_static"
    /\ fetched.result = "True"
    /\ Len(fetched.reply.body.entries) = 2
    /\ monitor.max_points = 1
    /\ monitor.timestamps = <<1005>>
    /\ monitor.temperature_data = <<72>>
    /\ monitor.start_time = <<1005>>

(***************************************************************************)
(* C32: under any interleaving of the uploader's periodic hardware-timer   *)
(* callback with its main loop, the callback changes only the LED pin: the *)
(* current sample, the retry counter, the connectivity checks, the number  *)
(* of POSTs and the reboot decision are the same as in a run without the   *)
(* timer.                                                                  *)
(***************************************************************************)
\* a step of the callback: the pin is toggled while the script stays where
\* it is (the reboot, which turns the pin off, moves the script)
TimerStep == up_led' # up_led /\ pc' = pc

\* a step of the main loop
MainLoopStep ==
    \/ pc' # pc
    \/ retries' # retries
    \/ assoc_attempts' # assoc_attempts

C32_TimerTouchesOnlyLed ==
    /\ [][TimerStep =>
            /\ up_led' = 1 - up_led
            /\ UNCHANGED <<num, retries, posted, post_bodies, last_attempt,
                           sta_seen_connected, assoc_attempts,
                           reset_calls>>]_vars
    /\ [][MainLoopStep =>
            \/ up_led' = up_led
            \/ pc = "up_reset" /\ pc' = "up_configure"]_vars
    \* every pass of the main loop is open whatever the pin shows
    /\ [](pc = "up_attempt" =>
            \A connected \in BOOLEAN, post_ok \in BOOLEAN :
                ENABLED InnerAttempt(connected, post_ok))
    /\ [](pc = "up_cycle" => \A n \in RandInts : ENABLED CycleStart(n))
    /\ [](pc = "up_reset" => ENABLED ResetCall)

\* the timer fired in the middle of a cycle, after a failed POST
C32_Witness ==
    /\ up_led = 1
    /\ pc = "up_attempt"
    /\ retries = 1
    /\ last_attempt = "post_raised"
    /\ num = <<39>>
    /\ post_bodies = {39}

(***************************************************************************)
(* C34: in the cloud uploader, exactly one sample in 0..100 is generated   *)
(* per upload cycle and the same sample is the body of every POST attempt  *)
(* of that cycle; after the first successful POST of a cycle no further    *)
(* POST is attempted in that cycle, and the next cycle begins with a newly *)
(* generated sample.                                                       *)
(***************************************************************************)
\* a pass of the for loop that called urequests.post
PostStep ==
    /\ pc = "up_attempt"
    /\ retries' # retries \/ pc' # pc
    /\ last_attempt' \in {"post_ok", "post_raised"}

NewCycleStep == pc = "up_cycle" /\ pc' = "up_attempt"

C34_OneSamplePerCycle ==
    /\ [](pc \in {"up_attempt", "up_reset"} =>
            /\ num \in {<<n>> : n \in 0..100}
            /\ post_bodies \subseteq {num[1]})
    /\ [](posted => /\ pc = "up_cycle"
                    /\ post_bodies = {num[1]})
    /\ [][num' # num => NewCycleStep \/ pc = "up_reset"]_vars
    /\ [][PostStep => ~posted /\ post_bodies' = {num[1]} /\ num' = num]_vars
    /\ [][NewCycleStep => /\ num' \in {<<n>> : n \in 0..100}
                          /\ post_bodies' = {}
                          /\ ~posted']_vars

\* a cycle that ended with its first successful POST, after two failures
C34_Witness ==
    /\ pc = "up_cycle"
    /\ posted
    /\ retries = 2
    /\ num = <<39>>
    /\ post_bodies = {39}
    /\ last_attempt = "post_ok"

C35_ContinueAfterHistoric ==
    /\ [][(args.historic /\ pc # "mon_live" /\ pc' = "mon_live") =>
            /\ args.continue_live
            /\ HistoricStep
            /\ fetched'.result = "True"
            /\ monitor'.timestamps # <<>>]_vars
    /\ [][(HistoricStep /\ fetched'.result # "True") =>
            pc' \in {"mon_exit", "mon_static", "mon_raised"}]_vars
    /\ [](pc \in {"mon_exit", "mon_static"} => frames = 0)
    /\ [][(pc \in {"mon_exit", "mon_static"}) => pc' = pc]_vars
    /\ [][(args.historic /\ TickStep /\ fetched'.result = "data") =>
            LET cap == monitor.max_points
                d == fetched'.reply.body.members
            IN  /\ monitor'.timestamps =
                      Last(Append(monitor.timestamps, frames'), cap)
                /\ monitor'.temperature_data =
                      Last(Append(monitor.temperature_data,
                                  d["temperature_f"]), cap)
                /\ monitor'.pressure_data =
                      Last(Append(monitor.pressure_data, d["pressure_pa"]),
                           cap)
                /\ monitor'.humidity_data =
                      Last(Append(monitor.humidity_data,
                                  d["humidity_percent"]), cap)
                /\ monitor'.altitude_data =
                      Last(Append(monitor.altitude_data, d["altitude_ft"]),
                           cap)
                /\ monitor'.start_time = monitor.start_time]_vars

\* two historic records filled series of capacity two; the first live
\* sample went in behind them and the older historic record left
C35_Witness ==
    /\ args.historic /\ args.continue_live
    /\ pc = "mon_live"
    /\ frames = 1
    /\ monitor.max_points = 2
    /\ monitor.timestamps = <<1005, 1>>
    /\ monitor.temperature_data = <<72, 70>>
    /\ monitor.start_time = <<1000>>

(***************************************************************************)
(* The two desktop monitors side by side: the polling monitor from its     *)
(* command line, or the wireless monitor.                                  *)
(***************************************************************************)
InitDesktop == InitMonitor \/ InitBle

NextDesktop == NextMonitor \/ NextBle

SpecDesktop == InitDesktop /\ [][NextDesktop]_vars

(***************************************************************************)
(* C36: in both desktop monitors, after any sequence of live ticks, queue  *)
(* drains, historic loads and evictions, the timestamp series and the four *)
(* value series all have the same length, at most the capacity, and the    *)
(* entries at one index come from the same sample.                         *)
(***************************************************************************)
Aligned(m) ==
    /\ Len(m.timestamps) <= m.max_points
    /\ Len(m.temperature_data) = Len(m.timestamps)
    /\ Len(m.pressure_data) = Len(m.timestamps)
    /\ Len(m.humidity_data) = Len(m.timestamps)
    /\ Len(m.altitude_data) = Len(m.timestamps)

\* what the five series hold at each index
Rows(m) ==
    [i \in 1..Len(m.timestamps) |->
        <<m.timestamps[i], m.temperature_data[i], m.pressure_data[i],
          m.humidity_data[i], m.altitude_data[i]>>]

\* the samples of a queue, taken out at the time now
Drained(q, now) == [i \in 1..Len(q) |-> <<now>> \o q[i]]

\* the queues update_plot may find, and the series it already holds
Queues ==
    {<<>>, <<TupleA>>, <<TupleB>>, <<TupleA, TupleB>>, <<TupleB, TupleA>>,
     <<TupleA, TupleB, TupleA>>}

\* drain() on a monitor of capacity two that holds what an earlier drain
\* of q1 left and finds q2 in its queue
DrainKeepsRows ==
    \A q1 \in Queues, q2 \in Queues :
        LET m0 == [SensorMonitorBLE(60, 1) EXCEPT !.notification_queue = q1]
            m1 == [drain(m0, 1) EXCEPT !.notification_queue = q2]
            m2 == drain(m1, 2)
        IN  /\ Aligned(m1) /\ Aligned(m2)
            /\ Rows(m1) = Last(Drained(q1, 1), 2)
            /\ Rows(m2) = Last(Rows(m1) \o Drained(q2, 2), 2)
            /\ m2.notification_queue = <<>>

C37_MainHistoryReplays ==
    [][(/\ HistoricStep
        /\ raise_for_status(fetched'.reply) = "ok"
        /\ fetched'.reply.body \in ServedByMain) =>
         /\ monitor.max_points > 0 => fetched'.result = "True"
         /\ Len(monitor'.timestamps) =
               min({Len(fetched'.reply.body.entries), monitor.max_points})]_vars

(***************************************************************************)
(* C38: after any sequence of Clear, Print and Display calls with x >= 0   *)
(* and y >= 0, the framebuffer has exactly 512 bytes, and a Print call     *)
(* changes only bytes of the page y // 8 at columns x..127: it never       *)
(* writes into another page and never indexes outside the buffer.          *)
(***************************************************************************)
C38_PrintStaysInItsPage ==
    /\ [](DOMAIN buffer = 0..511)
    /\ [][(PrintStep /\ oled_call'.x >= 0 /\ oled_call'.y >= 0) =>
            LET x == oled_call'.x
                page == oled_call'.y \div 8
                written == IF page >= _PAGES THEN {}
                           ELSE buffer_indexes(oled_call'.text, x, page)
            IN  /\ \A idx \in written :
                      /\ idx \in 0..511
                      /\ idx \div 128 = page
                      /\ idx % 128 >= x
                /\ \A idx \in 0..511 :
                      buffer'[idx] # buffer[idx] => idx \in written]_vars

\* a text printed near the right edge of page 1 onto a framebuffer that an
\* earlier print filled at the left: only columns from 120 on have changed
C38_Witness ==
    /\ oled_calls = 2
    /\ oled_call.name = "print"
    /\ oled_call.x = 120 /\ oled_call.y = 9
    /\ oled_call.text = <<"H", "i">>
    /\ buffer[128] = 127
    /\ buffer[128 + 120] = 127
    /\ buffer[128 + 126] = 0
    /\ buffer[128 + 127] = 68
    /\ buffer[256] = 0

(***************************************************************************)
(* C39: in the full-featured server, once the device has its IP address,   *)
(* every update of the status display - whether triggered by a request or  *)
(* by the periodic maybe-log sensor read - renders the IP address as the   *)
(* fourth display line, so the display never loses the IP line after it    *)
(* was first shown.                                                        *)
(***************************************************************************)
\* the fourth line (page 3) of a framebuffer shows the address
ShowsIp(buf) ==
    \A i \in 1..Len(IP_ADDRESS), col \in 0..4 :
        buf[3 * 128 + (i - 1) * 6 + col] = _FONT[IP_ADDRESS[i]][col + 1]

StatusUpdateStep == oled_calls' = oled_calls + 1

C39_IpLineStays ==
    /\ [][(StatusUpdateStep /\ pc # "status_startup") => ShowsIp(buffer')]_vars
    /\ [][ShowsIp(buffer) => ShowsIp(buffer')]_vars

(***************************************************************************)
(* C40: in the wireless monitor the connection task makes progress while   *)
(* the chart window is open, alongside the redraw loop, so a notification  *)
(* the device sent while connected (one that is waiting in the queue) is   *)
(* eventually appended to the chart series.                                *)
(***************************************************************************)
NotificationWaiting == ble.constructed /\ ble.notification_queue # <<>>

NotificationsCharted ==
    /\ ble.constructed
    /\ ble.notification_queue = <<>>
    /\ Len(ble.timestamps) > 0

C40_NotificationReachesChart == NotificationWaiting ~> NotificationsCharted

====
